---- MODULE Spec2Model ----
(***************************************************************************)
(* Response stream sanitizer of Pickle-Thinker.                            *)
(*                                                                         *)
(*   src/unnamed/part_015  (fetch-wrapper/openai-sse.ts)                   *)
(*       sanitizeOpenAISseEventStream: SSE framing, protocol detection,    *)
(*       streaming <tool_call> tracker, Responses / Chat rewriting         *)
(*   src/unnamed/part_018  (fetch-wrapper/tool-call-block.ts)              *)
(*       parseToolCallBlock and its helpers                                *)
(*                                                                         *)
(* Texts (deltas, blocks, argument values) are TLA+ strings, handled with  *)
(* JavaScript's 0-based index conventions.  The wire is a sequence of      *)
(* tokens: one token per ASCII character, one per byte of a non-ASCII      *)
(* character, and two tokens (halves) per serialized JSON text.            *)
(***************************************************************************)
EXTENDS Integers, Sequences, FiniteSets, TLC

(***************************************************************************)
(* String helpers with the semantics of the JavaScript String methods the  *)
(* source calls.                                                           *)
(***************************************************************************)

\* s.slice(a, b) for 0 <= a (0-based, end exclusive, clamped to the length)
Slice(s, a, b) ==
  LET e == IF b > Len(s) THEN Len(s) ELSE b
  IN  IF a >= e THEN "" ELSE SubSeq(s, a + 1, e)

\* s.slice(a)
SliceFrom(s, a) == Slice(s, a, Len(s))

\* s[i] as a one-character string ("" past the end)
CharAt(s, i) == Slice(s, i, i + 1)

Max(a, b) == IF a >= b THEN a ELSE b

Min(a, b) == IF a <= b THEN a ELSE b

\* the least element of a non-empty set of integers
MinOf(S) == CHOOSE i \in S : \A j \in S : i <= j

\* the greatest element of a non-empty set of integers
MaxOf(S) == CHOOSE i \in S : \A j \in S : i >= j

\* the lower-case letter of each upper-case ASCII letter
UpperToLower ==
  [c \in {"A", "B", "C", "D", "E", "F", "G", "H", "I", "J", "K", "L", "M",
          "N", "O", "P", "Q", "R", "S", "T", "U", "V", "W", "X", "Y", "Z"} |->
     CASE c = "A" -> "a" [] c = "B" -> "b" [] c = "C" -> "c" [] c = "D" -> "d"
       [] c = "E" -> "e" [] c = "F" -> "f" [] c = "G" -> "g" [] c = "H" -> "h"
       [] c = "I" -> "i" [] c = "J" -> "j" [] c = "K" -> "k" [] c = "L" -> "l"
       [] c = "M" -> "m" [] c = "N" -> "n" [] c = "O" -> "o" [] c = "P" -> "p"
       [] c = "Q" -> "q" [] c = "R" -> "r" [] c = "S" -> "s" [] c = "T" -> "t"
       [] c = "U" -> "u" [] c = "V" -> "v" [] c = "W" -> "w" [] c = "X" -> "x"
       [] c = "Y" -> "y" [] c = "Z" -> "z"]

LowerChar(c) == IF c \in DOMAIN UpperToLower THEN UpperToLower[c] ELSE c

RECURSIVE LowerRange(_, _, _)
\* the characters a..b-1 of s in lower case (by halves)
LowerRange(s, a, b) ==
  IF a >= b THEN ""
  ELSE IF b = a + 1 THEN LowerChar(CharAt(s, a))
  ELSE LET mid == (a + b) \div 2
       IN  LowerRange(s, a, mid) \o LowerRange(s, mid, b)

\* s.toLowerCase() (ASCII letters; the model's texts are ASCII)
ToLowerCase(s) ==
  IF \A i \in 1..Len(s) : SubSeq(s, i, i) \notin DOMAIN UpperToLower THEN s
  ELSE LowerRange(s, 0, Len(s))

RECURSIVE KeepRange(_, _, _, _)
\* the characters of s at the indices a..b-1 that are in keep, in order
KeepRange(s, keep, a, b) ==
  IF a >= b THEN ""
  ELSE IF b = a + 1 THEN (IF a \in keep THEN CharAt(s, a) ELSE "")
  ELSE LET mid == (a + b) \div 2
       IN  KeepRange(s, keep, a, mid) \o KeepRange(s, keep, mid, b)

\* s.startsWith(p, i)
StartsWithAt(s, p, i) == Slice(s, i, i + Len(p)) = p

StartsWith(s, p) == StartsWithAt(s, p, 0)

EndsWith(s, p) == Len(p) <= Len(s) /\ SliceFrom(s, Len(s) - Len(p)) = p

\* s.indexOf(p, i) for a non-empty p: first index >= i at which p occurs,
\* -1 if none
IndexOfFrom(s, p, i) ==
  LET First(S) == IF S = {} THEN -1 ELSE MinOf(S)
  IN  First({k \in (IF i < 0 THEN 0 ELSE i)..(Len(s) - Len(p)) : StartsWithAt(s, p, k)})

IndexOf(s, p) == IndexOfFrom(s, p, 0)

Includes(s, p) == IndexOf(s, p) # -1

\* the characters matched by \s in the model's alphabet
IsSpace(c) == c \in {" ", "\n", "\t", "\r"}

\* index of the first non-space character at or after i (at least Len(s)
\* if none)
SkipSpaces(s, i) ==
  LET First(S) == IF S = {} THEN Max(i, Len(s)) ELSE MinOf(S)
  IN  First({k \in i..(Len(s) - 1) : ~IsSpace(CharAt(s, k))})

\* length of s[0..n) without its trailing spaces
TrimEndLen(s, n) ==
  LET Last(S) == IF S = {} THEN 0 ELSE MaxOf(S) + 1
  IN  Last({k \in 0..(n - 1) : ~IsSpace(CharAt(s, k))})

\* s.trimStart(), s.trimEnd(), s.trim()
TrimStart(s) == SliceFrom(s, SkipSpaces(s, 0))

TrimEnd(s) == Slice(s, 0, TrimEndLen(s, Len(s)))

Trim(s) == TrimEnd(TrimStart(s))

(***************************************************************************)
(* Thinking wrapper stripping (part_015, lines 114-149).                   *)
(***************************************************************************)

\* text.replace(/<open>/?think<close>\s*/gi, "") for the bracket pair
\* (open, close): every marker and the white space after it is removed.
\* Two matches never overlap (a marker holds its opening bracket only at
\* its start, the white space none), so every occurrence is a match and a
\* character is removed exactly when a match covers it.
RemoveTags(s, open, close) ==
  LET OpenTag == open \o "think" \o close
      CloseTag == open \o "/think" \o close
      Spans(low) ==
        {<<i, SkipSpaces(s, i + 7)>> : i \in {k \in 0..(Len(s) - 7) : StartsWithAt(low, OpenTag, k)}}
          \cup
        {<<i, SkipSpaces(s, i + 8)>> : i \in {k \in 0..(Len(s) - 8) : StartsWithAt(low, CloseTag, k)}}
      Keep(spans) == {j \in 0..(Len(s) - 1) : \A sp \in spans : j < sp[1] \/ j >= sp[2]}
      Cut(spans) == IF spans = {} THEN s ELSE KeepRange(s, Keep(spans), 0, Len(s))
  IN  Cut(Spans(ToLowerCase(s)))

\* combined.replace(/<\/?think>\s*/gi, "").replace(/\[\/?think\]\s*/gi, "")
RemoveThinkMarkers(s) == RemoveTags(RemoveTags(s, "<", ">"), "[", "]")

ThinkMarkers == {"<think>", "</think>", "[think]", "[/think]"}

\* the largest len in 3..max whose suffix is buffered, 0 if none
RECURSIVE DanglingLen(_, _)
DanglingLen(text, len) ==
  IF len < 3 THEN 0
  ELSE LET Buffered(lowered) ==
             Includes(lowered, "th") /\ \E m \in ThinkMarkers : StartsWith(m, lowered)
       IN  IF Buffered(ToLowerCase(SliceFrom(text, Len(text) - len))) THEN len
           ELSE DanglingLen(text, len - 1)

\* mutant: nothing is ever held back
SplitDanglingNever(text) == [visible |-> text, dangling |-> ""]

\* splitDanglingThinkingPrefix
SplitDanglingThinkingPrefix(text) ==
  LET Split(len) ==
        IF len = 0 THEN [visible |-> text, dangling |-> ""]
        ELSE [visible  |-> Slice(text, 0, Len(text) - len),
              dangling |-> SliceFrom(text, Len(text) - len)]
  IN  Split(DanglingLen(text, Min(Len(text), 8)))

\* stripThinkingWrappers: returns the cleaned text and the new value of
\* danglingThinkPrefix (undefined before the first call reads as "")
StripThinkingWrappers(dangling, text) ==
  SplitDanglingThinkingPrefix(RemoveThinkMarkers(dangling \o text))

(***************************************************************************)
(* Tool-call block parser (part_018).                                      *)
(*                                                                         *)
(* An argument value is a record [t, json, str]: its JavaScript type after *)
(* coerceValue, its JSON.stringify text, and its content when a string.    *)
(* The argument object is a sequence of [key, val] in insertion order,     *)
(* which is the order JSON.stringify writes (keys are not integer-like).   *)
(***************************************************************************)

Digits == {"0", "1", "2", "3", "4", "5", "6", "7", "8", "9"}

LowerLetters ==
  {"a", "b", "c", "d", "e", "f", "g", "h", "i", "j", "k", "l", "m",
   "n", "o", "p", "q", "r", "s", "t", "u", "v", "w", "x", "y", "z"}

\* \w
IsWordChar(c) == c \in Digits \/ c = "_" \/ c \in LowerLetters \/ c \in DOMAIN UpperToLower

AllDigits(s) == \A i \in 0..(Len(s) - 1) : CharAt(s, i) \in Digits

\* a JSON integer literal without sign, fraction or exponent
IsJsonInt(s) == Len(s) > 0 /\ AllDigits(s) /\ (Len(s) = 1 \/ CharAt(s, 0) # "0")

\* no character of s is in the set bad
NoneOf(s, bad) == \A i \in 0..(Len(s) - 1) : CharAt(s, i) \notin bad

\* a JSON string literal without escapes
IsJsonString(s) ==
  /\ Len(s) >= 2
  /\ CharAt(s, 0) = "\"" /\ CharAt(s, Len(s) - 1) = "\""
  /\ NoneOf(Slice(s, 1, Len(s) - 1), {"\"", "\\", "\n", "\t", "\r"})

EscapeChar(c) ==
  CASE c = "\"" -> "\\\""
    [] c = "\\" -> "\\\\"
    [] c = "\n" -> "\\n"
    [] c = "\t" -> "\\t"
    [] c = "\r" -> "\\r"
    [] OTHER    -> c

RECURSIVE EscapeRange(_, _, _)
\* the characters a..b-1 of s, escaped for a JSON string (by halves)
EscapeRange(s, a, b) ==
  IF a >= b THEN ""
  ELSE IF b = a + 1 THEN EscapeChar(CharAt(s, a))
  ELSE LET mid == (a + b) \div 2
       IN  EscapeRange(s, a, mid) \o EscapeRange(s, mid, b)

\* JSON.stringify of a string
Quote(s) == "\"" \o EscapeRange(s, 0, Len(s)) \o "\""

StringValue(s) == [t |-> "string", json |-> Quote(s), str |-> s]

\* JSON.parse of an argument value, on the JSON texts of the model's
\* alphabet: the three literals, unsigned integers, strings without
\* escapes, the empty array and the empty object; any other text of the
\* model's inputs is not valid JSON and JSON.parse throws on it.
JsonParses(s) == s \in {"true", "false", "null", "[]", "{}"} \/ IsJsonInt(s) \/ IsJsonString(s)

JsonParseValue(s) ==
  CASE s \in {"true", "false"} -> [t |-> "boolean", json |-> s, str |-> ""]
    [] s = "null"              -> [t |-> "null", json |-> s, str |-> ""]
    [] s = "[]"                -> [t |-> "array", json |-> s, str |-> ""]
    [] s = "{}"                -> [t |-> "object", json |-> s, str |-> ""]
    [] IsJsonInt(s)            -> [t |-> "number", json |-> s, str |-> ""]
    [] OTHER                   -> StringValue(Slice(s, 1, Len(s) - 1))

\* mutant: the trimmed text is kept as it is
CoerceValueNoParse(raw) == StringValue(Trim(raw))

\* coerceValue
CoerceValue(raw) ==
  LET trimmed == Trim(raw)
  IN  IF Len(trimmed) = 0 THEN StringValue("")
      ELSE IF JsonParses(trimmed) THEN JsonParseValue(trimmed)
      ELSE StringValue(trimmed)

HasKey(args, k) == \E i \in 1..Len(args) : args[i].key = k

\* args[k] (only used when HasKey)
GetArg(args, k) == args[CHOOSE i \in 1..Len(args) : args[i].key = k].val

\* args[k] = v: an existing key keeps its place
SetArg(args, k, v) ==
  IF HasKey(args, k)
  THEN [i \in 1..Len(args) |-> IF args[i].key = k THEN [key |-> k, val |-> v] ELSE args[i]]
  ELSE Append(args, [key |-> k, val |-> v])

\* typeof args[k] === ty  /  Array.isArray(args[k]) for ty = "array"
ArgIs(args, k, ty) == HasKey(args, k) /\ GetArg(args, k).t = ty

RECURSIVE CloseKeyAt(_, _, _)
\* first index >= i of a "</arg_key>" that is followed by \s*<arg_value>
\* and, later, by "</arg_value>"; -1 if none
CloseKeyAt(s, low, i) ==
  LET Value(kc, v) ==
        IF StartsWithAt(low, "<arg_value>", v) /\ IndexOfFrom(low, "</arg_value>", v + 11) # -1
        THEN kc
        ELSE CloseKeyAt(s, low, kc + 1)
      Key(kc) == IF kc = -1 THEN -1 ELSE Value(kc, SkipSpaces(s, kc + 10))
  IN  Key(IndexOfFrom(low, "</arg_key>", i))

\* the match of the first regular expression starting at st (the index of
\* "<arg_key>"), as [ok, key, raw, next]
MatchPairAt(s, low, st) ==
  LET Value(kc, v, ve) ==
        [ok |-> TRUE, key |-> Trim(Slice(s, st + 9, kc)),
         raw |-> Trim(Slice(s, v, ve)), next |-> ve + 12]
      ValueAt(kc, v) == Value(kc, v, IndexOfFrom(low, "</arg_value>", v))
      Key(kc) ==
        IF kc = -1 THEN [ok |-> FALSE, key |-> "", raw |-> "", next |-> st + 1]
        ELSE ValueAt(kc, SkipSpaces(s, kc + 10) + 11)
  IN  Key(CloseKeyAt(s, low, st + 9))

\* index after the run of word characters starting at i
WordEnd(s, i) ==
  LET First(S) == IF S = {} THEN Max(i, Len(s)) ELSE MinOf(S)
  IN  First({k \in i..(Len(s) - 1) : ~IsWordChar(CharAt(s, k))})

\* the match of the second regular expression (key fused into the tag
\* name) starting at st (the index of "<arg_key")
MatchFusedAt(s, low, st) ==
  LET Value(we, v, ve) ==
        IF StartsWithAt(low, "<arg_value>", v) /\ ve # -1
        THEN [ok |-> TRUE, key |-> Slice(s, st + 8, we),
              raw |-> Trim(Slice(s, v + 11, ve)), next |-> ve + 12]
        ELSE [ok |-> FALSE, key |-> "", raw |-> "", next |-> st + 1]
      ValueAt(we, v) == Value(we, v, IndexOfFrom(low, "</arg_value>", v + 11))
      Close(we, kc) ==
        IF we > st + 8 /\ StartsWithAt(low, "</arg_key>", kc)
        THEN ValueAt(we, SkipSpaces(s, kc + 10))
        ELSE [ok |-> FALSE, key |-> "", raw |-> "", next |-> st + 1]
      Word(we) == Close(we, SkipSpaces(s, we))
  IN  Word(WordEnd(s, st + 8))

RECURSIVE CollectPairs(_, _, _, _)
\* for (const m of s.matchAll(<first expression>)) args[key] = coerceValue(raw)
CollectPairs(s, low, i, args) ==
  LET Matched(m) ==
        IF ~m.ok THEN CollectPairs(s, low, m.next, args)
        ELSE CollectPairs(s, low, m.next,
               IF m.key = "" THEN args ELSE SetArg(args, m.key, CoerceValue(m.raw)))
      Start(st) == IF st = -1 THEN args ELSE Matched(MatchPairAt(s, low, st))
  IN  Start(IndexOfFrom(low, "<arg_key>", i))

RECURSIVE CollectFused(_, _, _, _)
\* for (const m of s.matchAll(<second expression>)) args[key] = coerceValue(raw)
CollectFused(s, low, i, args) ==
  LET Matched(m) ==
        IF ~m.ok THEN CollectFused(s, low, m.next, args)
        ELSE CollectFused(s, low, m.next, SetArg(args, m.key, CoerceValue(m.raw)))
      Start(st) == IF st = -1 THEN args ELSE Matched(MatchFusedAt(s, low, st))
  IN  Start(IndexOfFrom(low, "<arg_key", i))

\* the argument object built by the two loops of parseToolCallBlock
CollectArgs(s) ==
  LET Both(low) == CollectFused(s, low, 0, CollectPairs(s, low, 0, <<>>))
  IN  Both(ToLowerCase(s))

\* the largest q in lo..hi at which \b(?:name|tool)="([^"]+)" matches, -1 if
\* none (the greedy [^>]* before it gives the last attribute that starts
\* before the first ">")
LastAttrIn(s, low, lo, hi) ==
  LET Last(S) == IF S = {} THEN -1 ELSE MaxOf(S)
  IN  Last({q \in lo..hi :
              /\ StartsWithAt(low, "name=\"", q) \/ StartsWithAt(low, "tool=\"", q)
              /\ ~IsWordChar(CharAt(s, q - 1))
              /\ IndexOfFrom(s, "\"", q + 6) > q + 6})

RECURSIVE AttrMatchFrom(_, _, _)
\* toolCallXmlish.match(/<tool_call\b[^>]*\b(?:name|tool)="([^"]+)"/i):
\* [ok, value] of the leftmost match, scanning the candidate starts from i
AttrMatchFrom(s, low, i) ==
  LET Attr(p, q) ==
        IF q = -1 THEN AttrMatchFrom(s, low, p + 1)
        ELSE [ok |-> TRUE, value |-> Slice(s, q + 6, IndexOfFrom(s, "\"", q + 6))]
      Span(p, gt) ==
        Attr(p, IF IsWordChar(CharAt(s, p + 10)) THEN -1
                ELSE LastAttrIn(s, low, p + 11, IF gt = -1 THEN Len(s) ELSE gt))
      Start(p) ==
        IF p = -1 THEN [ok |-> FALSE, value |-> ""]
        ELSE Span(p, IndexOfFrom(s, ">", p + 10))
  IN  Start(IndexOfFrom(low, "<tool_call", i))

\* extractExplicitToolName; "" stands for null (both are falsy for the
\* caller, and an attribute of white space only really yields "")
ExtractExplicitToolName(s, args) ==
  LET \* args.tool ?? args.name ?? args.toolName
      argName == IF HasKey(args, "tool") /\ GetArg(args, "tool").t # "null" THEN GetArg(args, "tool")
                 ELSE IF HasKey(args, "name") /\ GetArg(args, "name").t # "null" THEN GetArg(args, "name")
                 ELSE IF HasKey(args, "toolName") THEN GetArg(args, "toolName")
                 ELSE [t |-> "undefined", json |-> "", str |-> ""]
      Name(attrMatch) ==
        IF attrMatch.ok THEN Trim(attrMatch.value)
        ELSE IF argName.t = "string" /\ Len(Trim(argName.str)) > 0 THEN Trim(argName.str)
        ELSE ""
  IN  Name(AttrMatchFrom(s, ToLowerCase(s), 0))

\* stripToolNameFields
StripToolNameFields(args) ==
  SelectSeq(args, LAMBDA a : a.key \notin {"tool", "name", "toolName"})

\* mutant: the list with the todo tools spelled without the underscore
BuiltinIdsOtherSpelling ==
  {"invalid", "bash", "read", "glob", "grep", "list", "edit", "write", "task",
   "webfetch", "todowrite", "todoread", "websearch", "codesearch", "batch"}

OPENCODE_BUILTIN_TOOL_IDS ==
  {"invalid", "bash", "read", "glob", "grep", "list", "edit", "write", "task",
   "webfetch", "todo_write", "todo_read", "websearch", "codesearch", "batch"}

\* isOpencodeBuiltinToolId
IsOpencodeBuiltinToolId(value) == value \in OPENCODE_BUILTIN_TOOL_IDS

\* mutant: a filePath alone is tested first
InferReadFirst(args) ==
  CASE ArgIs(args, "filePath", "string") -> "read"
    [] ArgIs(args, "pattern", "string") -> "glob"
    [] ArgIs(args, "url", "string") -> "webfetch"
    [] ArgIs(args, "command", "string") -> "bash"
    [] ArgIs(args, "todos", "array") -> "todo_write"
    [] OTHER -> ""

\* inferToolNameFromArgs; "" stands for null
InferToolNameFromArgs(args) ==
  CASE ArgIs(args, "tool_calls", "array") -> "batch"
    [] ArgIs(args, "filePath", "string") /\ ArgIs(args, "content", "string") -> "write"
    [] ArgIs(args, "filePath", "string") /\ ArgIs(args, "oldString", "string")
         /\ ArgIs(args, "newString", "string") -> "edit"
    [] ArgIs(args, "filePath", "string") -> "read"
    [] ArgIs(args, "pattern", "string")
         /\ (ArgIs(args, "include", "string") \/ ArgIs(args, "path", "string")) -> "grep"
    [] ArgIs(args, "pattern", "string") -> "glob"
    [] ArgIs(args, "path", "string") /\ ArgIs(args, "ignore", "array") -> "list"
    [] ArgIs(args, "url", "string") -> "webfetch"
    [] ArgIs(args, "query", "string") /\ ArgIs(args, "tokensNum", "number") -> "codesearch"
    [] ArgIs(args, "query", "string") -> "websearch"
    [] ArgIs(args, "prompt", "string") /\ ArgIs(args, "subagent_type", "string") -> "task"
    [] ArgIs(args, "command", "string") -> "bash"
    [] ArgIs(args, "todos", "array") -> "todo_write"
    [] ArgIs(args, "tool", "string") /\ IsOpencodeBuiltinToolId(GetArg(args, "tool").str)
         -> GetArg(args, "tool").str
    [] OTHER -> ""

RECURSIVE StringifyMembers(_, _)
StringifyMembers(args, i) ==
  IF i > Len(args) THEN ""
  ELSE (IF i > 1 THEN "," ELSE "") \o Quote(args[i].key) \o ":" \o args[i].val.json
         \o StringifyMembers(args, i + 1)

\* JSON.stringify(args)
StringifyArgs(args) == "{" \o StringifyMembers(args, 1) \o "}"

\* the value null of parseToolCallBlock
ParseNull == [ok |-> FALSE, toolName |-> "", arguments |-> ""]

\* parseToolCallBlock
ParseToolCallBlock(toolCallXmlish) ==
  LET Inferred(args, inferred) ==
        IF inferred = "" THEN ParseNull
        ELSE [ok |-> TRUE, toolName |-> inferred, arguments |-> StringifyArgs(args)]
      Named(args, explicitToolName) ==
        IF explicitToolName # ""
        THEN [ok |-> TRUE, toolName |-> explicitToolName,
              arguments |-> StringifyArgs(StripToolNameFields(args))]
        ELSE Inferred(args, InferToolNameFromArgs(args))
      WithArgs(args) == Named(args, ExtractExplicitToolName(toolCallXmlish, args))
  IN  WithArgs(CollectArgs(toolCallXmlish))

(***************************************************************************)
(* Streaming tracker (part_015, lines 151-200).  The closure variables     *)
(* inToolCall, toolCallBuffer and danglingThinkPrefix are passed in and    *)
(* returned in a record.                                                   *)
(***************************************************************************)

OpenMarker == "<tool_call"

EndTag == "</tool_call>"

\* mutant: the call is put in front of the list
PushParsedFront(toolCalls, parsed) ==
  IF parsed.ok
  THEN <<[toolName |-> parsed.toolName, arguments |-> parsed.arguments]>> \o toolCalls
  ELSE toolCalls

\* if (parsed) toolCalls.push(parsed)
PushParsed(toolCalls, parsed) ==
  IF parsed.ok
  THEN Append(toolCalls, [toolName |-> parsed.toolName, arguments |-> parsed.arguments])
  ELSE toolCalls

RECURSIVE ScanLoop(_, _, _, _, _, _)
\* mutant: the accumulator keeps a block that was handed to the parser
ScanLoopKeepsBuffer(remaining, low, inToolCall, toolCallBuffer, visibleText, toolCalls) ==
  IF Len(remaining) = 0
  THEN [inToolCall |-> inToolCall, toolCallBuffer |-> toolCallBuffer,
        visibleText |-> visibleText, toolCalls |-> toolCalls]
  ELSE IF ~inToolCall
  THEN LET Outside(startIdx, openEnd) ==
             IF startIdx = -1
             THEN [inToolCall |-> inToolCall, toolCallBuffer |-> toolCallBuffer,
                   visibleText |-> visibleText \o remaining, toolCalls |-> toolCalls]
             ELSE IF openEnd = -1
             THEN [inToolCall |-> TRUE,
                   toolCallBuffer |-> toolCallBuffer \o SliceFrom(remaining, startIdx),
                   visibleText |-> visibleText \o Slice(remaining, 0, startIdx),
                   toolCalls |-> toolCalls]
             ELSE ScanLoop(SliceFrom(remaining, openEnd + 1), SliceFrom(low, openEnd + 1), TRUE,
                           toolCallBuffer \o Slice(remaining, startIdx, openEnd + 1),
                           visibleText \o Slice(remaining, 0, startIdx), toolCalls)
           First(startIdx) == Outside(startIdx, IndexOfFrom(remaining, ">", startIdx))
       IN  First(IndexOf(low, OpenMarker))
  ELSE LET Inside(endIdx) ==
             IF endIdx = -1
             THEN [inToolCall |-> inToolCall, toolCallBuffer |-> toolCallBuffer \o remaining,
                   visibleText |-> visibleText, toolCalls |-> toolCalls]
             ELSE ScanLoop(SliceFrom(remaining, endIdx + Len(EndTag)),
                           SliceFrom(low, endIdx + Len(EndTag)), FALSE,
                           toolCallBuffer \o Slice(remaining, 0, endIdx + Len(EndTag)),
                           visibleText,
                           PushParsed(toolCalls,
                             ParseToolCallBlock(toolCallBuffer \o Slice(remaining, 0, endIdx + Len(EndTag)))))
       IN  Inside(IndexOf(low, EndTag))

\* the while loop of extractToolCallsFromText; low is remaining.toLowerCase()
ScanLoop(remaining, low, inToolCall, toolCallBuffer, visibleText, toolCalls) ==
  IF Len(remaining) = 0
  THEN [inToolCall |-> inToolCall, toolCallBuffer |-> toolCallBuffer,
        visibleText |-> visibleText, toolCalls |-> toolCalls]
  ELSE IF ~inToolCall
  THEN LET Outside(startIdx, openEnd) ==
             IF startIdx = -1
             THEN [inToolCall |-> inToolCall, toolCallBuffer |-> toolCallBuffer,
                   visibleText |-> visibleText \o remaining, toolCalls |-> toolCalls]
             ELSE IF openEnd = -1
             THEN [inToolCall |-> TRUE,
                   toolCallBuffer |-> toolCallBuffer \o SliceFrom(remaining, startIdx),
                   visibleText |-> visibleText \o Slice(remaining, 0, startIdx),
                   toolCalls |-> toolCalls]
             ELSE ScanLoop(SliceFrom(remaining, openEnd + 1), SliceFrom(low, openEnd + 1), TRUE,
                           toolCallBuffer \o Slice(remaining, startIdx, openEnd + 1),
                           visibleText \o Slice(remaining, 0, startIdx), toolCalls)
           First(startIdx) == Outside(startIdx, IndexOfFrom(remaining, ">", startIdx))
       IN  First(IndexOf(low, OpenMarker))
  ELSE LET Inside(endIdx) ==
             IF endIdx = -1
             THEN [inToolCall |-> inToolCall, toolCallBuffer |-> toolCallBuffer \o remaining,
                   visibleText |-> visibleText, toolCalls |-> toolCalls]
             ELSE ScanLoop(SliceFrom(remaining, endIdx + Len(EndTag)),
                           SliceFrom(low, endIdx + Len(EndTag)), FALSE, "", visibleText,
                           PushParsed(toolCalls,
                             ParseToolCallBlock(toolCallBuffer \o Slice(remaining, 0, endIdx + Len(EndTag)))))
       IN  Inside(IndexOf(low, EndTag))

\* extractToolCallsFromText: tr holds inToolCall, toolCallBuffer and
\* danglingThinkPrefix before the call; the result holds them after it,
\* with the visibleText and the toolCalls returned
ExtractToolCallsFromText(tr, text) ==
  LET Result(split, r) ==
        [inToolCall |-> r.inToolCall, toolCallBuffer |-> r.toolCallBuffer,
         danglingThinkPrefix |-> split.dangling,
         visibleText |-> r.visibleText, toolCalls |-> r.toolCalls]
      Scan(split) ==
        Result(split, ScanLoop(split.visible, ToLowerCase(split.visible),
                               tr.inToolCall, tr.toolCallBuffer, "", <<>>))
  IN  Scan(StripThinkingWrappers(tr.danglingThinkPrefix, text))

\* the tracker of a new stream (lines 27-28 and 117)
NewTracker == [inToolCall |-> FALSE, toolCallBuffer |-> "", danglingThinkPrefix |-> ""]

(***************************************************************************)
(* The wire.  A byte stream and a decoded text are sequences of tokens:    *)
(*   [c |-> x]   the ASCII character x (one byte, one character)           *)
(*   [b |-> h]   the byte h of a multi-byte UTF-8 sequence                 *)
(*   [u |-> p]   the decoded non-ASCII character U+p                       *)
(*   [j |-> v, part |-> n, canon |-> k]                                    *)
(*               half n (1 or 2) of a text of the JSON value v; canon      *)
(*               tells the text JSON.stringify writes from another text of *)
(*               the same value (other spacing)                            *)
(* A JSON object is a record of its members, {} is <<>>, and a JSON value  *)
(* that is not an object is [scalar |-> its text].                         *)
(***************************************************************************)

\* the tokens of an ASCII string
Chars(s) == [i \in 1..Len(s) |-> [c |-> SubSeq(s, i, i)]]

NL == [c |-> "\n"]

IsCharTok(tok) == "c" \in DOMAIN tok

IsSpaceTok(tok) == IsCharTok(tok) /\ IsSpace(tok.c)

RECURSIVE TextOf(_, _, _)
\* the string of the character tokens a..b of toks (by halves)
TextOf(toks, a, b) ==
  IF a > b THEN ""
  ELSE IF a = b THEN toks[a].c
  ELSE LET mid == (a + b) \div 2
       IN  TextOf(toks, a, mid) \o TextOf(toks, mid + 1, b)

RECURSIVE FlatMap(_, _, _, _)
\* the concatenation of Op(toks, i) for i in a..b (by halves)
FlatMap(Op(_, _), toks, a, b) ==
  IF a > b THEN <<>>
  ELSE IF a = b THEN Op(toks, a)
  ELSE LET mid == (a + b) \div 2
       IN  FlatMap(Op, toks, a, mid) \o FlatMap(Op, toks, mid + 1, b)

\* what the UTF-8 decoder emits when it reaches byte i of bytes: a lead
\* byte waits for its continuation byte; an unpaired byte becomes U+FFFD
DecodeAt(bytes, i) ==
  LET tok == bytes[i]
  IN  IF "b" \notin DOMAIN tok THEN <<tok>>
      ELSE IF tok.b = "C3"
      THEN (IF i = Len(bytes) \/ bytes[i + 1] = [b |-> "A9"] THEN <<>> ELSE <<[u |-> "FFFD"]>>)
      ELSE IF i > 1 /\ bytes[i - 1] = [b |-> "C3"] THEN <<[u |-> "E9"]>>
      ELSE <<[u |-> "FFFD"]>>

\* the text decoded from bytes and the lead byte held back
Decoded(bytes) ==
  [text |-> FlatMap(DecodeAt, bytes, 1, Len(bytes)),
   pending |-> IF bytes # <<>> /\ bytes[Len(bytes)] = [b |-> "C3"]
               THEN <<[b |-> "C3"]>> ELSE <<>>]

\* mutant: decode(chunk) without the stream option, every chunk on its own
DecodeEachChunk(pending, chunk) ==
  [text |-> FlatMap(DecodeAt, chunk, 1, Len(chunk))
              \o (IF chunk # <<>> /\ chunk[Len(chunk)] = [b |-> "C3"] THEN <<[u |-> "FFFD"]>> ELSE <<>>),
   pending |-> <<>>]

\* decoder.decode(chunk, { stream: true }) with the bytes held from the
\* call before: the text decoded and the bytes held for the next call
DecodeStream(pending, chunk) == Decoded(pending \o chunk)

\* decoder.decode() at the end of the stream
DecodeEnd(pending) == IF pending = <<>> THEN <<>> ELSE <<[u |-> "FFFD"]>>

EncodeAt(toks, i) ==
  IF "u" \notin DOMAIN toks[i] THEN <<toks[i]>>
  ELSE IF toks[i].u = "E9" THEN <<[b |-> "C3"], [b |-> "A9"]>>
  ELSE <<[b |-> "EF"], [b |-> "BF"], [b |-> "BD"]>>

\* encoder.encode(text)
Encode(toks) == FlatMap(EncodeAt, toks, 1, Len(toks))

IsObject(json) == "scalar" \notin DOMAIN json

\* json?.f is defined.  In the JSON values of the streams a member named
\* type, delta or content holds a string, output_index a number and
\* choices an array, so the typeof and Array.isArray tests of the code on
\* these members come down to this.
Has(json, f) == IsObject(json) /\ f \in DOMAIN json

\* a text of the JSON object v as JSON.stringify writes it (canon) or with
\* other spacing
JsonText(v, canon) ==
  <<[j |-> v, part |-> 1, canon |-> canon], [j |-> v, part |-> 2, canon |-> canon]>>

\* JSON.stringify(c)
Stringify(c) == IF IsObject(c) THEN JsonText(c, TRUE) ELSE Chars(c.scalar)

\* JSON.parse(data): [ok, json].  A text of all characters is parsed as in
\* JsonParses; the two halves of an object text parse to the object, also
\* with white space between them; anything else throws.
ParseJson(data) ==
  LET Fail == [ok |-> FALSE, json |-> [scalar |-> "undefined"]]
      Scalar(s) ==
        IF JsonParses(s) THEN [ok |-> TRUE, json |-> [scalar |-> JsonParseValue(s).json]]
        ELSE Fail
      n == Len(data)
  IN  IF n = 0 THEN Fail
      ELSE IF \A i \in 1..n : IsCharTok(data[i]) THEN Scalar(TextOf(data, 1, n))
      ELSE IF /\ n >= 2
              /\ "j" \in DOMAIN data[1] /\ data[1].part = 1
              /\ data[n] = [data[1] EXCEPT !.part = 2]
              /\ \A i \in 2..(n - 1) : IsSpaceTok(data[i])
      THEN [ok |-> TRUE, json |-> data[1].j]
      ELSE Fail

\* eventBlock.split("\n")
SplitLines(block) ==
  LET nl == {i \in 1..Len(block) : block[i] = NL}
      Nth(k) == IF k = 0 THEN 0
                ELSE IF k > Cardinality(nl) THEN Len(block) + 1
                ELSE CHOOSE q \in nl : Cardinality({x \in nl : x < q}) = k - 1
  IN  [k \in 1..(Cardinality(nl) + 1) |-> SubSeq(block, Nth(k - 1) + 1, Nth(k) - 1)]

\* l.startsWith("data:")
IsDataLine(l) == Len(l) >= 5 /\ SubSeq(l, 1, 5) = Chars("data:")

\* text.trimStart() on tokens
TrimStartToks(toks) ==
  LET ns == {i \in 1..Len(toks) : ~IsSpaceTok(toks[i])}
  IN  IF ns = {} THEN <<>> ELSE SubSeq(toks, MinOf(ns), Len(toks))

\* text.trim() on tokens
TrimToks(toks) ==
  LET ns == {i \in 1..Len(toks) : ~IsSpaceTok(toks[i])}
  IN  IF ns = {} THEN <<>> ELSE SubSeq(toks, MinOf(ns), MaxOf(ns))

RECURSIVE JoinLines(_, _)
\* lines.join("\n") from line i on
JoinLines(lines, i) ==
  IF i > Len(lines) THEN <<>>
  ELSE IF i = Len(lines) THEN lines[i]
  ELSE lines[i] \o <<NL>> \o JoinLines(lines, i + 1)

\* dataLines.map((l) => l.slice("data:".length).trimStart()).join("\n").trim()
DataOf(dataLines) ==
  TrimToks(JoinLines([i \in 1..Len(dataLines) |->
                        TrimStartToks(SubSeq(dataLines[i], 6, Len(dataLines[i])))], 1))

\* randomUUID(): the n-th identifier drawn in the stream
Uuid(n) == "uuid-" \o ToString(n)

\* the JSON null in a member that otherwise holds a string
Null == "<null>"

(***************************************************************************)
(* Event rewriting (part_015, lines 64-112 and 202-324).  The closure      *)
(* variables of the stream are the fields of the record st.                *)
(***************************************************************************)

\* detectMode
DetectMode(firstJson) ==
  IF Has(firstJson, "type") THEN "responses"
  ELSE IF Has(firstJson, "choices") THEN "chat"
  ELSE "unknown"

\* the three events pushed for one tool call (lines 217-247)
FunctionCallEvents(toolCall, outputIndex, itemId, callId) ==
  << [type |-> "response.output_item.added", output_index |-> outputIndex,
      item |-> [type |-> "function_call", id |-> itemId, call_id |-> callId,
                name |-> toolCall.toolName, arguments |-> ""]],
     [type |-> "response.function_call_arguments.delta", item_id |-> itemId,
      output_index |-> outputIndex, delta |-> toolCall.arguments],
     [type |-> "response.output_item.done", output_index |-> outputIndex,
      item |-> [type |-> "function_call", id |-> itemId, call_id |-> callId,
                name |-> toolCall.toolName, arguments |-> toolCall.arguments,
                status |-> "completed"]] >>

\* mutant: the index after the highest seen is not recorded as allocated
NextOutputIndexStale(maxOutputIndex) == Max(maxOutputIndex, 0)

\* const outputIndex = Math.max(maxOutputIndex + 1, 0)
NextOutputIndex(maxOutputIndex) == Max(maxOutputIndex + 1, 0)

\* injected.push(...) of the three events before what the rest of the loop
\* pushes
PushFirst(events, rest) == [rest EXCEPT !.injected = events \o @]

RECURSIVE InjectResponses(_, _, _, _)
\* the loop over toolCalls of rewriteResponsesChunk, from call i on:
\* [maxOutputIndex, uuid, injected]
InjectResponses(toolCalls, i, maxOutputIndex, uuidN) ==
  IF i > Len(toolCalls)
  THEN [maxOutputIndex |-> maxOutputIndex, uuid |-> uuidN, injected |-> <<>>]
  ELSE PushFirst(FunctionCallEvents(toolCalls[i], NextOutputIndex(maxOutputIndex),
                                    Uuid(uuidN + 1), Uuid(uuidN + 2)),
                 InjectResponses(toolCalls, i + 1, NextOutputIndex(maxOutputIndex), uuidN + 2))

\* the tracker held in the fields of st
TrackerOf(st) ==
  [inToolCall |-> st.inToolCall, toolCallBuffer |-> st.toolCallBuffer,
   danglingThinkPrefix |-> st.danglingThinkPrefix]

\* return [{ ...chunk, delta: visibleText }, ...injected], with the closure
\* variables as extractToolCallsFromText (r) and the loop (inj) leave them
ResponsesRewritten(st, chunk, r, inj) ==
  [st |-> [st EXCEPT !.inToolCall = r.inToolCall,
                     !.toolCallBuffer = r.toolCallBuffer,
                     !.danglingThinkPrefix = r.danglingThinkPrefix,
                     !.maxOutputIndex = inj.maxOutputIndex,
                     !.uuid = inj.uuid],
   chunks |-> <<[chunk EXCEPT !.delta = r.visibleText]>> \o inj.injected]

\* lines 208-252 of rewriteResponsesChunk, for the result r of
\* extractToolCallsFromText
ResponsesExtracted(st, chunk, r) ==
  ResponsesRewritten(st, chunk, r, InjectResponses(r.toolCalls, 1, st.maxOutputIndex, st.uuid))

\* rewriteResponsesChunk: [st, chunks]
RewriteResponsesChunk(st, chunk) ==
  IF ~(Has(chunk, "type") /\ chunk.type = "response.output_text.delta" /\ Has(chunk, "delta"))
  THEN [st |-> st, chunks |-> <<chunk>>]
  ELSE ResponsesExtracted(st, chunk, ExtractToolCallsFromText(TrackerOf(st), chunk.delta))

\* mutant: the chunk that closes the tool call is not pushed
ToolCallChunksOpenOnly(chunk, choiceIndex, callIndex, toolCallId, toolCall) ==
  << [chunk EXCEPT !.choices =
        << [index |-> choiceIndex,
            delta |-> [tool_calls |->
                         << [index |-> callIndex, id |-> toolCallId, type |-> "function",
                             function |-> [name |-> toolCall.toolName,
                                           arguments |-> toolCall.arguments]] >>],
            finish_reason |-> Null] >>] >>

\* the two chunks pushed for the tool call number callIndex of the choice
\* number choiceIndex (lines 275-307)
ToolCallChunks(chunk, choiceIndex, callIndex, toolCallId, toolCall) ==
  << [chunk EXCEPT !.choices =
        << [index |-> choiceIndex,
            delta |-> [tool_calls |->
                         << [index |-> callIndex, id |-> toolCallId, type |-> "function",
                             function |-> [name |-> toolCall.toolName,
                                           arguments |-> toolCall.arguments]] >>],
            finish_reason |-> Null] >>],
     [chunk EXCEPT !.choices =
        << [index |-> choiceIndex, delta |-> <<>>, finish_reason |-> "tool_calls"] >>] >>

RECURSIVE InjectChat(_, _, _, _, _)
\* the loop over toolCalls of one choice, from call i on (callIndex i - 1)
InjectChat(chunk, choiceIndex, toolCalls, i, uuidN) ==
  IF i > Len(toolCalls) THEN <<>>
  ELSE ToolCallChunks(chunk, choiceIndex, i - 1, "call_" \o Uuid(uuidN + 1), toolCalls[i])
         \o InjectChat(chunk, choiceIndex, toolCalls, i + 1, uuidN + 1)

\* typeof choice?.delta?.content === "string"
HasContent(choice) == "delta" \in DOMAIN choice /\ "content" \in DOMAIN choice.delta

\* lines 269-320 for the choice i (choiceIndex i - 1) and the result r of
\* extractToolCallsFromText: the tracker, the identifier count, the choices
\* mapped and the chunks injected so far
ChoiceExtracted(chunk, i, acc, r) ==
  [tr |-> [inToolCall |-> r.inToolCall, toolCallBuffer |-> r.toolCallBuffer,
           danglingThinkPrefix |-> r.danglingThinkPrefix],
   uuid |-> acc.uuid + Len(r.toolCalls),
   choices |-> Append(acc.choices,
                      [chunk.choices[i] EXCEPT !.delta = [@ EXCEPT !.content = r.visibleText]]),
   injected |-> acc.injected \o InjectChat(chunk, i - 1, r.toolCalls, 1, acc.uuid)]

RECURSIVE MapChoices(_, _, _)
\* chunk.choices.map(...) from choice i on, with the tracker and the
\* identifier count in acc: [tr, uuid, choices, injected]
MapChoices(chunk, i, acc) ==
  IF i > Len(chunk.choices) THEN acc
  ELSE IF ~HasContent(chunk.choices[i])
  THEN MapChoices(chunk, i + 1, [acc EXCEPT !.choices = Append(@, chunk.choices[i])])
  ELSE MapChoices(chunk, i + 1,
                  ChoiceExtracted(chunk, i, acc,
                    ExtractToolCallsFromText(acc.tr, chunk.choices[i].delta.content)))

\* return [{ ...chunk, choices }, ...injected], with the closure variables
\* as the map leaves them
ChatRewritten(st, chunk, acc) ==
  [st |-> [st EXCEPT !.inToolCall = acc.tr.inToolCall,
                     !.toolCallBuffer = acc.tr.toolCallBuffer,
                     !.danglingThinkPrefix = acc.tr.danglingThinkPrefix,
                     !.uuid = acc.uuid],
   chunks |-> <<[chunk EXCEPT !.choices = acc.choices]>> \o acc.injected]

\* rewriteChatChunk: [st, chunks]
RewriteChatChunk(st, chunk) ==
  IF ~Has(chunk, "choices") THEN [st |-> st, chunks |-> <<chunk>>]
  ELSE ChatRewritten(st, chunk,
         MapChoices(chunk, 1, [tr |-> TrackerOf(st), uuid |-> st.uuid,
                               choices |-> <<>>, injected |-> <<>>]))

\* `data: ${JSON.stringify(c)}\n\n`
DataEvent(chunks, i) == Chars("data: ") \o Stringify(chunks[i]) \o <<NL, NL>>

\* rewritten.map((c) => `data: ${JSON.stringify(c)}\n\n`).join("")
EmitChunks(chunks) == FlatMap(DataEvent, chunks, 1, Len(chunks))

\* if (mode === "unknown") mode = detectMode(json)
ModeAfter(modeNow, json) == IF modeNow = "unknown" THEN DetectMode(json) ELSE modeNow

\* what the closure variables hold that an event may change
Snapshot(st) ==
  [mode |-> st.mode, inToolCall |-> st.inToolCall, toolCallBuffer |-> st.toolCallBuffer,
   danglingThinkPrefix |-> st.danglingThinkPrefix, maxOutputIndex |-> st.maxOutputIndex]

\* the record kept of one rewriteEventBlock call: the block, the payload
\* parsed, the chunks and the text returned, the closure variables before
\* and after
LogEntry(before, block, kind, jsons, res, emitted) ==
  [block |-> block, kind |-> kind, json |-> jsons, chunks |-> res.chunks,
   emitted |-> emitted, before |-> Snapshot(before), after |-> Snapshot(res.st)]

\* an event returned as received (lines 69 and 85)
PassRaw(st, eventBlock, kind) ==
  [st |-> [st EXCEPT !.log = Append(@, LogEntry(st, eventBlock, kind, <<>>,
                                                [st |-> st, chunks |-> <<>>],
                                                eventBlock \o <<NL, NL>>))],
   emitted |-> eventBlock \o <<NL, NL>>]

\* mutant: an event without a data line is dropped
NoDataEventDropped(st, eventBlock) ==
  [st |-> [st EXCEPT !.log = Append(@, LogEntry(st, eventBlock, "nodata", <<>>,
                                                [st |-> st, chunks |-> <<>>], <<>>))],
   emitted |-> <<>>]

\* if (dataLines.length === 0) return eventBlock + "\n\n"
NoDataEvent(st, eventBlock) == PassRaw(st, eventBlock, "nodata")

\* if (data === "[DONE]") return "data: [DONE]\n\n"
DoneEvent(st, eventBlock) ==
  [st |-> [st EXCEPT !.log = Append(@, LogEntry(st, eventBlock, "done", <<>>,
                                                [st |-> st, chunks |-> <<>>],
                                                Chars("data: [DONE]\n\n")))],
   emitted |-> Chars("data: [DONE]\n\n")]

\* mutant: the output_index of the events is not recorded
SeenJsonNoIndex(st, json, m) == [st EXCEPT !.mode = m]

\* lines 88-94: the mode detected while unknown, the output_index seen
SeenJson(st, json, m) ==
  [st EXCEPT !.mode = m,
             !.maxOutputIndex = IF m = "responses" /\ Has(json, "output_index")
                                THEN Max(@, json.output_index) ELSE @]

\* lines 96-97: the chunks the payload is rewritten to in the mode of st
RewrittenChunks(st, json) ==
  IF st.mode = "responses" THEN RewriteResponsesChunk(st, json)
  ELSE IF st.mode = "chat" THEN RewriteChatChunk(st, json)
  ELSE [st |-> st, chunks |-> <<json>>]

\* line 99: the text of the chunks of res
EmitRewritten(st, eventBlock, json, res) ==
  [st |-> [res.st EXCEPT !.log = Append(@, LogEntry(st, eventBlock, "json", <<json>>,
                                                    res, EmitChunks(res.chunks)))],
   emitted |-> EmitChunks(res.chunks)]

\* lines 88-99 of rewriteEventBlock, for the parsed payload json
RewriteJson(st, eventBlock, json) ==
  EmitRewritten(st, eventBlock, json,
                RewrittenChunks(SeenJson(st, json, ModeAfter(st.mode, json)), json))

\* lines 81-99, for the result p of JSON.parse
RewriteParsed(st, eventBlock, p) ==
  IF ~p.ok THEN PassRaw(st, eventBlock, "badjson") ELSE RewriteJson(st, eventBlock, p.json)

\* lines 77-99, for the payload data
RewriteData(st, eventBlock, data) ==
  IF data = Chars("[DONE]") THEN DoneEvent(st, eventBlock)
  ELSE RewriteParsed(st, eventBlock, ParseJson(data))

\* lines 68-99, for the data lines of the block
RewriteLines(st, eventBlock, dataLines) ==
  IF Len(dataLines) = 0 THEN NoDataEvent(st, eventBlock)
  ELSE RewriteData(st, eventBlock, DataOf(dataLines))

\* rewriteEventBlock: [st, emitted]
RewriteEventBlock(st, eventBlock) ==
  RewriteLines(st, eventBlock, SelectSeq(SplitLines(eventBlock), IsDataLine))

\* buffer.indexOf("\n\n") (1-based position of the first of the two, 0 if
\* none)
Boundary(buf) ==
  LET S == {i \in 1..(Len(buf) - 1) : buf[i] = NL /\ buf[i + 1] = NL}
  IN  IF S = {} THEN 0 ELSE MinOf(S)

\* controller.enqueue(encoder.encode(...)) of what rewriteEventBlock
\* returned
Enqueue(r) == [r.st EXCEPT !.out = @ \o Encode(r.emitted)]

\* lines 42-45: the event block before the boundary leaves the buffer and
\* is rewritten
TakeEvent(st, boundary) ==
  Enqueue(RewriteEventBlock([st EXCEPT !.buffer = SubSeq(@, boundary + 2, Len(@))],
                            SubSeq(st.buffer, 1, boundary - 1)))

RECURSIVE Drain(_)
\* a loop that stops after the first event block
DrainOnce(st) ==
  IF Boundary(st.buffer) = 0 THEN st ELSE TakeEvent(st, Boundary(st.buffer))

\* the while (true) loop of transform
Drain(st) ==
  IF Boundary(st.buffer) = 0 THEN st ELSE Drain(TakeEvent(st, Boundary(st.buffer)))

\* buffer += decoder.decode(chunk, { stream: true })
Buffered(st, d) == [st EXCEPT !.buffer = @ \o d.text, !.decPending = d.pending]

\* transform(chunk, controller)
Transform(st, chunk) == Drain(Buffered(st, DecodeStream(st.decPending, chunk)))

\* if (tail.length > 0) controller.enqueue(encoder.encode(tail))
EnqueueTail(st, tail) == IF Len(tail) > 0 THEN [st EXCEPT !.out = @ \o Encode(tail)] ELSE st

\* flush(controller)
Flush(st) == EnqueueTail(st, st.buffer \o DecodeEnd(st.decPending))

\* the closure variables when sanitizeOpenAISseEventStream returns
NewStream ==
  [mode |-> "unknown", buffer |-> <<>>, inToolCall |-> FALSE, toolCallBuffer |-> "",
   maxOutputIndex |-> -1, danglingThinkPrefix |-> "", decPending |-> <<>>, uuid |-> 0,
   out |-> <<>>, log |-> <<>>]

(***************************************************************************)
(* State.                                                                  *)
(***************************************************************************)

VARIABLES
  \* closure variables of one sanitizeOpenAISseEventStream call
  mode,                 \* "unknown", "responses" or "chat"
  buffer,               \* framing buffer: decoded text not yet split
  inToolCall,           \* tracker inside a <tool_call> block
  toolCallBuffer,       \* text of the block accumulated so far
  maxOutputIndex,       \* highest output_index seen or allocated
  danglingThinkPrefix,  \* withheld suffix that may start a thinking marker
  decPending,           \* bytes the streaming TextDecoder holds back
  uuid,                 \* number of randomUUID() results drawn
  \* the stream around it
  input,                \* bytes of the response body
  pos,                  \* bytes delivered to transform() so far
  closed,               \* flush() has run
  out,                  \* bytes enqueued so far
  log,                  \* one record per event block rewritten
  cuts,                 \* kinds of places where the transport cut the body
  \* a text fed to the tracker fragment by fragment
  text,                 \* the whole text
  fed,                  \* characters fed so far
  visAcc,               \* concatenation of the visibleText results
  callsAcc,             \* concatenation of the toolCalls results
  thinkCuts,            \* fragment boundaries inside a thinking marker
  \* a call of sanitizeModelResponse
  response,             \* the Response passed in
  options,              \* the options passed in
  returned,             \* the Response returned
  bodyRead,             \* the body of the returned Response was read to its end
  bodyOut,              \* the bytes read from it
  \* a call of parseToolCallBlock
  blockGiven,           \* the attribute and the key/value pairs of the block
  blockText,            \* the text of the block
  blockParsed,          \* the result, <<>> before the call
  \* a second sanitizeOpenAISseEventStream call at work at the same time
  peer,                 \* its closure variables, its body and its progress
  \* the message transform hook
  pluginConfig,         \* the plugin's config
  messagesGiven,        \* output.messages as the host first hands them over
  messagesBefore,       \* output.messages before the latest run of the handler
  outputMessages,       \* output.messages
  hookState,            \* hookState.messageTransform
  sessionEnhance,       \* the map of session-state.ts
  runs,                 \* the number of runs of the handler
  hookLog,              \* one record per run of a hook on a session
  \* one call of the fetch of initializeFetchWrapper
  fetchConfig,          \* config
  fetchOptions,         \* options
  fetchInit,            \* the init the caller passes
  forwarded,            \* the init originalFetch is called with, <<>> before
  upstream,             \* the Response of originalFetch
  delivered,            \* the Response the caller gets
  sanitizeCalls         \* the calls of sanitizeModelResponse

trackerVars == <<inToolCall, toolCallBuffer, danglingThinkPrefix>>

streamVars ==
  <<mode, buffer, maxOutputIndex, decPending, uuid, input, pos, closed, out, log, cuts>>

harnessVars == <<text, fed, visAcc, callsAcc, thinkCuts>>

responseVars == <<response, options, returned, bodyRead, bodyOut>>

parserVars == <<blockGiven, blockText, blockParsed>>

\* the variables outside the stream and its tracker, and those outside
\* them and the call of sanitizeModelResponse
peerVars == <<peer>>

handlerVars ==
  <<pluginConfig, messagesGiven, messagesBefore, outputMessages, hookState, sessionEnhance, runs,
    hookLog>>

fetchVars ==
  <<fetchConfig, fetchOptions, fetchInit, forwarded, upstream, delivered, sanitizeCalls>>

afterStream == <<responseVars, parserVars, peerVars, handlerVars, fetchVars>>

afterResponse == <<parserVars, peerVars, handlerVars, fetchVars>>

afterParser == <<peerVars, handlerVars, fetchVars>>

afterPeer == <<handlerVars, fetchVars>>

afterHandler == <<fetchVars>>

vars ==
  <<trackerVars, streamVars, harnessVars, responseVars, parserVars, peerVars, handlerVars,
    fetchVars>>

\* no call of sanitizeModelResponse is under way
NoCall ==
  /\ response = <<>> /\ options = <<>> /\ returned = <<>>
  /\ bodyRead = FALSE /\ bodyOut = <<>>

\* no call of parseToolCallBlock is under way
NoParse == blockGiven = <<>> /\ blockText = "" /\ blockParsed = <<>>

\* the fetch is not called
NoFetch ==
  /\ fetchConfig = <<>> /\ fetchOptions = <<>> /\ fetchInit = <<>> /\ forwarded = <<>>
  /\ upstream = <<>> /\ delivered = <<>> /\ sanitizeCalls = <<>>

\* the message transform hook is not installed
NoHandler ==
  /\ pluginConfig = <<>> /\ messagesGiven = <<>> /\ messagesBefore = <<>>
  /\ outputMessages = <<>> /\ hookState = <<>> /\ sessionEnhance = <<>> /\ runs = 0
  /\ hookLog = <<>>

\* no second stream is open
NoPeer == peer = <<>>

\* the parts of the program named in active are at work, the others idle
IdleExcept(active) ==
  /\ IF "response" \in active THEN TRUE ELSE NoCall
  /\ IF "parser" \in active THEN TRUE ELSE NoParse
  /\ IF "peer" \in active THEN TRUE ELSE NoPeer
  /\ IF "handler" \in active THEN TRUE ELSE NoHandler
  /\ IF "fetch" \in active THEN TRUE ELSE NoFetch

\* the tracker held in the closure variables
Tracker ==
  [inToolCall |-> inToolCall, toolCallBuffer |-> toolCallBuffer,
   danglingThinkPrefix |-> danglingThinkPrefix]

(***************************************************************************)
(* SpecTracker: one stream's tracker fed a text cut into fragments at      *)
(* arbitrary places.                                                       *)
(***************************************************************************)

BlockAttr == "<tool_call name=\"ls\"></tool_call>"

BlockInfer == "<tool_call><arg_key>command</arg_key><arg_value>ls</arg_value></tool_call>"

\* a block whose only argument key names no tool
BlockUnknown == "<tool_call><arg_key>zz</arg_key><arg_value>1</arg_value></tool_call>"

\* two blocks with text before, between and after them
TextBlocks == "a" \o BlockAttr \o " b " \o BlockInfer \o "c"

\* a block parseToolCallBlock rejects, between two letters
TextRejected == "x" \o BlockUnknown \o "y"

\* the texts fed to the tracker
TrackerTexts ==
  { "Hi " \o BlockAttr \o " ok",
    BlockInfer \o ".",
    TextBlocks, TextRejected,
    "a<think>b", "a</THINK>b", "a[Think]b", "a[/think]b" }

\* the cut q falls strictly inside a thinking marker of s
InsideThink(s, q) ==
  \E i \in Max(0, q - 7)..(q - 1) : \E m \in ThinkMarkers :
     ToLowerCase(Slice(s, i, i + Len(m))) = m /\ q < i + Len(m)

TrackerInit ==
  /\ text \in TrackerTexts
  /\ fed = 0 /\ visAcc = "" /\ callsAcc = <<>>
  /\ thinkCuts = {}
  /\ inToolCall = FALSE /\ toolCallBuffer = "" /\ danglingThinkPrefix = ""
  /\ mode = "unknown" /\ buffer = <<>> /\ maxOutputIndex = -1 /\ decPending = <<>>
  /\ uuid = 0 /\ input = <<>> /\ pos = 0 /\ closed = TRUE /\ out = <<>> /\ log = <<>>
  /\ cuts = {}
  /\ IdleExcept({})

\* the next fragment text[fed..q) goes through extractToolCallsFromText
FeedFragment(q) ==
  /\ fed < Len(text) /\ q > fed /\ q <= Len(text)
  /\ LET Fed(r) ==
           /\ inToolCall' = r.inToolCall
           /\ toolCallBuffer' = r.toolCallBuffer
           /\ danglingThinkPrefix' = r.danglingThinkPrefix
           /\ visAcc' = visAcc \o r.visibleText
           /\ callsAcc' = callsAcc \o r.toolCalls
     IN  Fed(ExtractToolCallsFromText(Tracker, Slice(text, fed, q)))
  /\ fed' = q
  /\ thinkCuts' = IF q < Len(text) /\ InsideThink(text, q) THEN thinkCuts \cup {q} ELSE thinkCuts
  /\ UNCHANGED <<text, streamVars, afterStream>>

TrackerNext == \E q \in 1..Len(text) : FeedFragment(q)

SpecTracker == TrackerInit /\ [][TrackerNext]_vars

\* the result of feeding the whole text as a single fragment
Whole(t) == ExtractToolCallsFromText(NewTracker, t)

(***************************************************************************)
(* Spec: one response body delivered to transform() in transport chunks    *)
(* cut at arbitrary places, then flush().                                  *)
(***************************************************************************)

Sep == <<NL, NL>>

\* an event of one data line holding the JSON object v
DataLine(v) == Chars("data: ") \o JsonText(v, TRUE)

TextDelta(t) == [type |-> "response.output_text.delta", output_index |-> 0, delta |-> t]

ItemAdded(n) == [type |-> "response.output_item.added", output_index |-> n]

ChatChunk(choices) == [id |-> "chatcmpl-1", choices |-> choices]

ContentChoice(n, t) == [index |-> n, delta |-> [content |-> t]]

\* Responses stream: two blocks in one delta, between a genuine item 0
\* and a genuine item 1
StreamResponses ==
  Chars("event: response.created\n") \o DataLine([type |-> "response.created"]) \o Sep
    \o DataLine(ItemAdded(0)) \o Sep
    \o DataLine(TextDelta("Hi " \o BlockAttr \o BlockInfer \o " ok")) \o Sep
    \o DataLine(ItemAdded(1)) \o Sep
    \o Chars("data: [DONE]") \o Sep

\* Responses stream: a thinking marker and a block cut between deltas, a
\* comment with a two-byte character and a broken payload inside the
\* block, and a tail without its blank line
StreamSplit ==
  DataLine(TextDelta("a<th")) \o Sep
    \o DataLine(TextDelta("ink>b<tool_call name=\"ls\">")) \o Sep
    \o Chars(": ") \o <<[b |-> "C3"], [b |-> "A9"]>> \o Sep
    \o Chars("data: {oops") \o Sep
    \o DataLine(TextDelta("</tool_call>c")) \o Sep
    \o Chars("data: ") \o <<JsonText(ItemAdded(1), TRUE)[1]>>

\* Chat stream: two choices with content in one chunk written with other
\* spacing, then a finish chunk
StreamChat ==
  Chars("data:") \o JsonText(ChatChunk(<<ContentChoice(0, "Sure, " \o BlockInfer \o " done"),
                                         ContentChoice(1, BlockAttr \o "x")>>), FALSE) \o Sep
    \o DataLine(ChatChunk(<<[index |-> 0, delta |-> <<>>, finish_reason |-> "stop"]>>)) \o Sep
    \o Chars("data: [DONE]") \o Sep

\* a stream whose first JSON payload has neither type nor choices, then a
\* Responses delta, a payload over two data lines, and a scalar payload
StreamUnknown ==
  Chars("id: 7\n") \o DataLine([foo |-> 1]) \o Sep
    \o Chars("event: response.output_text.delta\n") \o DataLine(TextDelta(BlockAttr)) \o Sep
    \o Chars("data: ") \o <<JsonText(ItemAdded(2), TRUE)[1]>> \o Chars("\ndata: ")
         \o <<JsonText(ItemAdded(2), TRUE)[2]>> \o Sep
    \o Chars("data: 5") \o Sep

\* a stream of payloads that are not JSON objects, blank events and a
\* lone continuation byte; no payload selects a protocol
StreamPlain ==
  Chars("data: null") \o Sep
    \o Chars("\nretry: 3") \o Sep
    \o Sep
    \o Chars("data: hello\ndata: world") \o Sep
    \o <<[b |-> "A9"]>> \o Chars("data:[DONE]\n") \o Sep
    \o DataLine([foo |-> 2]) \o Sep
    \o <<[b |-> "C3"]>>

\* Responses stream without any marker: deltas that end in the start of an
\* HTML tag
StreamMarkerFree ==
  DataLine(TextDelta("a<th")) \o Sep
    \o DataLine(TextDelta("b")) \o Sep
    \o DataLine(TextDelta("c [th")) \o Sep

\* Responses stream: a block without a tool name beside one with a name,
\* then an opening marker cut between two deltas that is never closed
StreamBroken ==
  DataLine(TextDelta("x" \o BlockUnknown \o "y" \o BlockAttr)) \o Sep
    \o DataLine(TextDelta("a<tool_")) \o Sep
    \o DataLine(TextDelta("call name=\"ls\">b")) \o Sep

\* Chat stream: the second choice opens a block that it never closes, then
\* the first choice goes on
StreamChatLeak ==
  DataLine(ChatChunk(<<ContentChoice(0, "a"), ContentChoice(1, "<tool_call name=\"ls\">")>>))
    \o Sep
    \o DataLine(ChatChunk(<<ContentChoice(0, "b")>>)) \o Sep

\* Responses stream: a genuine item 2, then a block in each of two deltas
StreamTwoDeltas ==
  DataLine(ItemAdded(2)) \o Sep
    \o DataLine(TextDelta(BlockAttr)) \o Sep
    \o DataLine(TextDelta(BlockInfer)) \o Sep

\* Chat stream: a block in the first choice of each of two events
StreamChatTwoCalls ==
  DataLine(ChatChunk(<<ContentChoice(0, BlockAttr)>>)) \o Sep
    \o DataLine(ChatChunk(<<ContentChoice(0, BlockInfer)>>)) \o Sep

\* the response bodies
Streams ==
  {StreamResponses, StreamSplit, StreamChat, StreamUnknown, StreamPlain,
   StreamMarkerFree, StreamBroken, StreamChatLeak, StreamTwoDeltas, StreamChatTwoCalls}

\* the closure variables as a record
Stream ==
  [mode |-> mode, buffer |-> buffer, inToolCall |-> inToolCall,
   toolCallBuffer |-> toolCallBuffer, maxOutputIndex |-> maxOutputIndex,
   danglingThinkPrefix |-> danglingThinkPrefix, decPending |-> decPending, uuid |-> uuid,
   out |-> out, log |-> log]

\* the closure variables become the fields of st
Becomes(st) ==
  /\ mode' = st.mode /\ buffer' = st.buffer /\ inToolCall' = st.inToolCall
  /\ toolCallBuffer' = st.toolCallBuffer /\ maxOutputIndex' = st.maxOutputIndex
  /\ danglingThinkPrefix' = st.danglingThinkPrefix /\ decPending' = st.decPending
  /\ uuid' = st.uuid /\ out' = st.out /\ log' = st.log

Init ==
  /\ input \in Streams
  /\ pos = 0 /\ closed = FALSE /\ cuts = {}
  /\ mode = NewStream.mode /\ buffer = NewStream.buffer
  /\ inToolCall = NewStream.inToolCall /\ toolCallBuffer = NewStream.toolCallBuffer
  /\ maxOutputIndex = NewStream.maxOutputIndex
  /\ danglingThinkPrefix = NewStream.danglingThinkPrefix
  /\ decPending = NewStream.decPending /\ uuid = NewStream.uuid
  /\ out = NewStream.out /\ log = NewStream.log
  /\ text = "" /\ fed = 0 /\ visAcc = "" /\ callsAcc = <<>> /\ thinkCuts = {}
  /\ IdleExcept({})

\* what a chunk ending after byte q of bytes cuts through
CutKinds(bytes, q) ==
  IF q >= Len(bytes) THEN {}
  ELSE (IF bytes[q] = NL /\ bytes[q + 1] = NL THEN {"boundary"} ELSE {})
         \cup (IF "j" \in DOMAIN bytes[q] /\ bytes[q].part = 1 THEN {"payload"} ELSE {})
         \cup (IF bytes[q] = [b |-> "C3"] THEN {"char"} ELSE {})
         \cup (IF bytes[q] # NL /\ bytes[q + 1] # NL THEN {"line"} ELSE {})

\* the transport delivers the bytes pos+1..q as one chunk
TransformChunk(q) ==
  /\ ~closed /\ pos < q /\ q <= Len(input)
  /\ Becomes(Transform(Stream, SubSeq(input, pos + 1, q)))
  /\ pos' = q
  /\ cuts' = cuts \cup CutKinds(input, q)
  /\ UNCHANGED <<input, closed, harnessVars, afterStream>>

\* the body ends
FlushStream ==
  /\ ~closed /\ pos = Len(input)
  /\ Becomes(Flush(Stream))
  /\ closed' = TRUE
  /\ UNCHANGED <<input, pos, cuts, harnessVars, afterStream>>

Next == (\E q \in 1..Len(input) : TransformChunk(q)) \/ FlushStream

Spec == Init /\ [][Next]_vars

\* the stream after the whole body arrives as one chunk and the body ends
RunWhole(bytes) == Flush(Transform(NewStream, bytes))

(***************************************************************************)
(* sanitizeModelResponse and the non-streaming JSON sanitizer              *)
(* (response-sanitizer.ts).  A Response is a record: status, statusText,   *)
(* headers (a function from the lower-case header names to their values),  *)
(* hasBody (body is not null) and body (its bytes).  The Response returned *)
(* also records the route taken and whether it is the input object itself. *)
(***************************************************************************)

\* headers.get(name) || ""
HeaderGet(headers, name) == IF name \in DOMAIN headers THEN headers[name] ELSE ""

\* headers.delete(name)
HeaderDelete(headers, name) == [h \in (DOMAIN headers) \ {name} |-> headers[h]]

\* options.likelySse === true
LikelySse(opts) == "likelySse" \in DOMAIN opts /\ opts.likelySse

\* mutant: the JSON content type is tested before the hint
RouteJsonFirst(contentType, opts) ==
  IF Includes(contentType, "text/event-stream") THEN "sse"
  ELSE IF Includes(contentType, "application/json") THEN "json"
  ELSE IF LikelySse(opts) THEN "sse"
  ELSE "pass"

\* the branch sanitizeModelResponse takes (lines 18-28)
Route(contentType, opts) ==
  IF Includes(contentType, "text/event-stream") \/ LikelySse(opts) THEN "sse"
  ELSE IF Includes(contentType, "application/json") THEN "json"
  ELSE "pass"

\* return response
SameResponse(resp, route) ==
  [route |-> route, same |-> TRUE, status |-> resp.status, statusText |-> resp.statusText,
   headers |-> resp.headers]

\* mutant: the headers are copied whole
NewResponseKeepsLength(resp, route) ==
  [route |-> route, same |-> FALSE, status |-> resp.status, statusText |-> resp.statusText,
   headers |-> resp.headers]

\* new Response(output, { status, statusText, headers }) after
\* headers.delete("content-length")
NewResponse(resp, route) ==
  [route |-> route, same |-> FALSE, status |-> resp.status, statusText |-> resp.statusText,
   headers |-> HeaderDelete(resp.headers, "content-length")]

\* the Response sanitizeOpenAISseEventStream returns
SseResponse(resp) ==
  IF ~resp.hasBody THEN SameResponse(resp, "sse") ELSE NewResponse(resp, "sse")

\* the Response sanitizeOpenAIJsonResponse returns
JsonResponse(resp) == NewResponse(resp, "json")

\* the Response of the branch taken
Routed(resp, route) ==
  IF route = "sse" THEN SseResponse(resp)
  ELSE IF route = "json" THEN JsonResponse(resp)
  ELSE SameResponse(resp, "pass")

\* sanitizeModelResponse
SanitizeModelResponse(resp, opts) ==
  Routed(resp, Route(HeaderGet(resp.headers, "content-type"), opts))

\* the result of the inner extractToolCallsFromText
JsonExtracted(visibleText, toolCalls) ==
  [visibleText |-> TrimEnd(visibleText), toolCalls |-> toolCalls]

RECURSIVE JsonScanLoop(_, _, _)
\* mutant: a block that is not closed is left out of the visible text
JsonScanBlockDropsTail(remaining, visibleText, toolCalls, startIdx, openEnd, endIdx) ==
  IF openEnd = -1 \/ endIdx = -1
  THEN JsonExtracted(visibleText \o Slice(remaining, 0, startIdx), toolCalls)
  ELSE JsonScanLoop(SliceFrom(remaining, endIdx + Len(EndTag)),
                    visibleText \o Slice(remaining, 0, startIdx),
                    PushParsed(toolCalls,
                               ParseToolCallBlock(Slice(remaining, startIdx, endIdx + Len(EndTag)))))

\* the block found at startIdx..endIdx + endTag.length is parsed and the
\* loop goes on behind the end tag (lines 131-151)
JsonScanBlock(remaining, visibleText, toolCalls, startIdx, openEnd, endIdx) ==
  IF openEnd = -1 \/ endIdx = -1
  THEN JsonExtracted(visibleText \o Slice(remaining, 0, startIdx) \o SliceFrom(remaining, startIdx),
                     toolCalls)
  ELSE JsonScanLoop(SliceFrom(remaining, endIdx + Len(EndTag)),
                    visibleText \o Slice(remaining, 0, startIdx),
                    PushParsed(toolCalls,
                               ParseToolCallBlock(Slice(remaining, startIdx, endIdx + Len(EndTag)))))

\* lines 125-141: the opening marker, its ">" and the end tag are looked up
JsonScanFrom(remaining, visibleText, toolCalls, startIdx) ==
  IF startIdx = -1 THEN JsonExtracted(visibleText \o remaining, toolCalls)
  ELSE JsonScanBlock(remaining, visibleText, toolCalls, startIdx,
                     IndexOfFrom(remaining, ">", startIdx),
                     IndexOf(ToLowerCase(remaining), EndTag))

\* the while loop of the inner extractToolCallsFromText
JsonScanLoop(remaining, visibleText, toolCalls) ==
  IF Len(remaining) = 0 THEN JsonExtracted(visibleText, toolCalls)
  ELSE JsonScanFrom(remaining, visibleText, toolCalls,
                    IndexOf(ToLowerCase(remaining), OpenMarker))

\* the extractToolCallsFromText of rewriteChatCompletionsJson
JsonExtractToolCallsFromText(content) == JsonScanLoop(content, "", <<>>)

\* message && typeof content === "string"
HasStringContent(choice) ==
  /\ IsObject(choice) /\ "message" \in DOMAIN choice
  /\ "content" \in DOMAIN choice.message
  /\ choice.message.content # Null

\* lower.includes("<tool_call") && lower.includes("</tool_call>")
HasBothMarkers(content) ==
  Includes(ToLowerCase(content), OpenMarker) /\ Includes(ToLowerCase(content), EndTag)

\* obj.k = v
SetField(obj, k, v) == [f \in (DOMAIN obj) \cup {k} |-> IF f = k THEN v ELSE obj[f]]

\* mutant: every entry gets the index 0
ToolCallEntriesIndexZero(toolCalls, uuidN) ==
  [i \in 1..Len(toolCalls) |->
     [index |-> 0, id |-> "call_" \o Uuid(uuidN + i), type |-> "function",
      function |-> [name |-> toolCalls[i].toolName, arguments |-> toolCalls[i].arguments]]]

\* toolCalls.map(...) (lines 95-103) after uuidN identifiers were drawn
ToolCallEntries(toolCalls, uuidN) ==
  [i \in 1..Len(toolCalls) |->
     [index |-> i - 1, id |-> "call_" \o Uuid(uuidN + i), type |-> "function",
      function |-> [name |-> toolCalls[i].toolName, arguments |-> toolCalls[i].arguments]]]

\* lines 93-104: the choice with its content, tool_calls and finish_reason
\* assigned
RewrittenChoice(choice, r, uuidN) ==
  SetField(SetField(choice, "message",
                    SetField(SetField(choice.message, "content", r.visibleText),
                             "tool_calls", ToolCallEntries(r.toolCalls, uuidN))),
           "finish_reason", "tool_calls")

\* mutant: the choice is rewritten also when no call was recovered
ChoiceScannedAlways(choice, r, uuidN) ==
  [changed |-> TRUE, choice |-> RewrittenChoice(choice, r, uuidN),
   uuid |-> uuidN + Len(r.toolCalls)]

\* lines 91-104 for the result r of the scan of the choice
ChoiceScanned(choice, r, uuidN) ==
  IF Len(r.toolCalls) = 0 THEN [changed |-> FALSE, choice |-> choice, uuid |-> uuidN]
  ELSE [changed |-> TRUE, choice |-> RewrittenChoice(choice, r, uuidN),
        uuid |-> uuidN + Len(r.toolCalls)]

\* the body of the for loop (lines 82-109) for one choice
RewriteChoice(choice, uuidN) ==
  IF ~HasStringContent(choice) THEN [changed |-> FALSE, choice |-> choice, uuid |-> uuidN]
  ELSE IF ~HasBothMarkers(choice.message.content)
  THEN [changed |-> FALSE, choice |-> choice, uuid |-> uuidN]
  ELSE ChoiceScanned(choice, JsonExtractToolCallsFromText(choice.message.content), uuidN)

RECURSIVE RewriteChoices(_, _, _)
\* the for loop from choice i on; acc holds changed, the choices so far and
\* the identifiers drawn
ChoiceRewritten(choices, i, acc, c) ==
  RewriteChoices(choices, i + 1,
                 [changed |-> acc.changed \/ c.changed,
                  choices |-> Append(acc.choices, c.choice), uuid |-> c.uuid])

RewriteChoices(choices, i, acc) ==
  IF i > Len(choices) THEN acc
  ELSE ChoiceRewritten(choices, i, acc, RewriteChoice(choices[i], acc.uuid))

\* the result of rewriteChatCompletionsJson from the result of its loop
JsonRewritten(json, r) == [changed |-> r.changed, value |-> [json EXCEPT !.choices = r.choices]]

\* rewriteChatCompletionsJson
RewriteChatCompletionsJson(json) ==
  IF ~Has(json, "choices") THEN [changed |-> FALSE, value |-> json]
  ELSE JsonRewritten(json, RewriteChoices(json.choices, 1,
                                          [changed |-> FALSE, choices |-> <<>>, uuid |-> 0]))

\* response.text() and cloned.json() decode the whole body
DecodeBody(bytes) == Decoded(bytes).text \o DecodeEnd(Decoded(bytes).pending)

\* lines 42-59 once the body text is parsed: the rewritten value is
\* serialized (json is changed in place, so lines 47 and 53 write the same
\* object); after a parse failure the text of the body is written
JsonBodyParsed(bodyText, parsed) ==
  IF parsed.ok THEN Encode(Stringify(RewriteChatCompletionsJson(parsed.json).value))
  ELSE Encode(bodyText)

\* the bytes start(controller) enqueues (lines 38-61)
JsonBodyText(bodyText) == JsonBodyParsed(bodyText, ParseJson(bodyText))

JsonBody(bytes) == JsonBodyText(DecodeBody(bytes))

\* the bytes read from the body of the Response ret returned for resp
BodyOf(resp, ret) ==
  IF ret.same THEN resp.body
  ELSE IF ret.route = "sse" THEN RunWhole(resp.body).out
  ELSE JsonBody(resp.body)

(***************************************************************************)
(* SpecResponse: sanitizeModelResponse is called on a Response and the     *)
(* body of the Response it returns is read.                                *)
(***************************************************************************)

Completion(choices) == [id |-> "cmpl-1", object |-> "chat.completion", choices |-> choices]

Choice(n, content) ==
  [index |-> n, message |-> [role |-> "assistant", content |-> content],
   finish_reason |-> "stop"]

\* a choice whose message holds tool calls and no content
ChoiceWithCalls(n) ==
  [index |-> n,
   message |-> [role |-> "assistant", content |-> Null,
                tool_calls |-> <<[index |-> 0, id |-> "call_a", type |-> "function",
                                  function |-> [name |-> "ls", arguments |-> "{}"]]>>],
   finish_reason |-> "tool_calls"]

\* two blocks are recovered from the first choice; the others have no
\* marker, a block that names no tool, no message, no content
BodyCalls ==
  JsonText(Completion(<<Choice(0, "x" \o BlockAttr \o "y" \o BlockInfer \o "z"),
                        Choice(1, "hello"),
                        Choice(2, "u" \o BlockUnknown \o "v"),
                        [index |-> 3, finish_reason |-> "stop"],
                        ChoiceWithCalls(4)>>), TRUE)

\* no choice yields a call; the text is not spaced as JSON.stringify does
BodyNoCalls ==
  JsonText(Completion(<<Choice(0, "hello"),
                        Choice(1, "u" \o BlockUnknown \o "v"),
                        Choice(2, "</tool_call>a<tool_call name=\"ls\">"),
                        ChoiceWithCalls(3)>>), FALSE)

\* a closing marker before the first block
BodyClosingFirst ==
  JsonText(Completion(<<Choice(0, "</tool_call>a" \o BlockAttr \o "b")>>), TRUE)

\* white space after the last block
BodyTrailing == JsonText(Completion(<<Choice(0, "a" \o BlockAttr \o " \n")>>), TRUE)

\* a block that names no tool before one that does
BodyRejected ==
  JsonText(Completion(<<Choice(0, "x" \o BlockUnknown \o "y" \o BlockAttr)>>), TRUE)

BodyError == JsonText([error |-> [message |-> "rate limited"]], TRUE)

BodyNull == Chars("null")

\* bodies that are not JSON: cut short, cut short inside a two-byte
\* character, and with a whole two-byte character
BodyTruncated == Chars("{\"choices\":[")

BodyTruncatedChar == Chars("{\"id\":\"caf") \o <<[b |-> "C3"]>>

BodyAccent == Chars("{\"id\":\"caf") \o <<[b |-> "C3"], [b |-> "A9"]>>

\* an opening marker that is never closed, after a complete block and
\* after none, with and without white space at the end
BodyIncomplete ==
  JsonText(Completion(<<Choice(0, BlockAttr \o "k<tool_call name=\"x\">c"),
                        Choice(1, "a" \o BlockInfer \o "<tool_call name=\"x\">c \n"),
                        Choice(2, "<tool_call name=\"x\">c \n"),
                        Choice(3, "</tool_call>" \o BlockAttr \o "<Tool_Call")>>), TRUE)

\* a block inside the letters of an opening marker
BodySpliced ==
  JsonText(Completion(<<Choice(0, "<tool_" \o BlockAttr \o "call name=\"ls\"></tool_call>")>>),
           TRUE)

Bodies ==
  {BodyCalls, BodyNoCalls, BodyClosingFirst, BodyTrailing, BodyRejected, BodyError, BodyNull,
   BodyTruncated, BodyTruncatedChar, BodyAccent, BodyIncomplete, BodySpliced, StreamResponses}

\* the content-type headers; Null stands for a response without one
ContentTypes ==
  {Null, "text/event-stream", "text/event-stream; charset=utf-8", "application/json",
   "application/json; charset=utf-8", "text/plain"}

HeaderNames(contentType, withLength) ==
  {"x-request-id"} \cup (IF contentType = Null THEN {} ELSE {"content-type"})
                   \cup (IF withLength THEN {"content-length"} ELSE {})

HeadersOf(contentType, withLength) ==
  [h \in HeaderNames(contentType, withLength) |->
     IF h = "content-type" THEN contentType
     ELSE IF h = "content-length" THEN "42" ELSE "req-1"]

Statuses == {[status |-> 200, statusText |-> "OK"], [status |-> 429, statusText |-> "Too Many Requests"]}

MakeResponse(st, headers, hasBody, body) ==
  [status |-> st.status, statusText |-> st.statusText, headers |-> headers,
   hasBody |-> hasBody, body |-> body]

\* the Responses passed in: every body under every content type, and
\* responses without a body
ResponsesIn ==
  {MakeResponse(st, HeadersOf(ct, wl), TRUE, b) :
     st \in Statuses, ct \in ContentTypes, wl \in BOOLEAN, b \in Bodies}
    \cup {MakeResponse(st, HeadersOf(ct, wl), FALSE, <<>>) :
            st \in Statuses, ct \in ContentTypes, wl \in BOOLEAN}

OptionsIn == {<<>>, [likelySse |-> TRUE], [likelySse |-> FALSE]}

\* no stream is open and no text is fed to a tracker
Quiet ==
  /\ text = "" /\ fed = 0 /\ visAcc = "" /\ callsAcc = <<>> /\ thinkCuts = {}
  /\ inToolCall = FALSE /\ toolCallBuffer = "" /\ danglingThinkPrefix = ""
  /\ mode = "unknown" /\ buffer = <<>> /\ maxOutputIndex = -1 /\ decPending = <<>>
  /\ uuid = 0 /\ input = <<>> /\ pos = 0 /\ closed = TRUE /\ out = <<>> /\ log = <<>>
  /\ cuts = {}

ResponseInit ==
  /\ response \in ResponsesIn /\ options \in OptionsIn
  /\ returned = <<>> /\ bodyRead = FALSE /\ bodyOut = <<>>
  /\ Quiet /\ IdleExcept({"response"})

\* sanitizeModelResponse(response, options) returns
Sanitize ==
  /\ returned = <<>>
  /\ returned' = SanitizeModelResponse(response, options)
  /\ UNCHANGED <<response, options, bodyRead, bodyOut, trackerVars, streamVars, harnessVars,
                 afterResponse>>

\* the caller reads the body of the Response returned to its end
ReadBody ==
  /\ returned # <<>> /\ ~bodyRead
  /\ bodyRead' = TRUE
  /\ bodyOut' = BodyOf(response, returned)
  /\ UNCHANGED <<response, options, returned, trackerVars, streamVars, harnessVars,
                 afterResponse>>

ResponseNext == Sanitize \/ ReadBody

SpecResponse == ResponseInit /\ [][ResponseNext]_vars

(***************************************************************************)
(* SpecParser: parseToolCallBlock is called on a block.  The block is      *)
(* written from an attribute of the opening tag (or none) and a list of    *)
(* key/value pairs.                                                        *)
(***************************************************************************)

\* <arg_key>k</arg_key><arg_value>raw</arg_value>
PairText(k, raw) == "<arg_key>" \o k \o "</arg_key><arg_value>" \o raw \o "</arg_value>"

RECURSIVE PairsText(_, _)
PairsText(pairs, i) ==
  IF i > Len(pairs) THEN ""
  ELSE PairText(pairs[i].key, pairs[i].raw) \o PairsText(pairs, i + 1)

AttrText(attr) ==
  IF attr = <<>> THEN "" ELSE " " \o attr[1].name \o "=\"" \o attr[1].value \o "\""

\* the text of the block g describes
BlockOf(g) == "<tool_call" \o AttrText(g.attr) \o ">" \o PairsText(g.pairs, 1) \o "</tool_call>"

\* the pair of key k, if a value is given for it
Opt(k, raw) == IF raw = Null THEN <<>> ELSE <<[key |-> k, raw |-> raw]>>

\* blocks that name their tool in an attribute, in the arguments tool,
\* name and toolName, or not at all, with and without a command
NamingGivens ==
  {[attr |-> a,
    pairs |-> Opt("tool", t) \o Opt("name", n) \o Opt("toolName", tn) \o Opt("command", c)] :
     a \in {<<>>, <<[name |-> "name", value |-> "at"]>>, <<[name |-> "tool", value |-> "at"]>>},
     t \in {Null, "read", "3", ""}, n \in {Null, "nm"}, tn \in {Null, "tn"},
     c \in {Null, "ls"}}

\* the arguments the inference table looks at, in the order they are
\* written into a block
InferPool ==
  << <<[key |-> "filePath", raw |-> "a.txt"]>>,
     <<[key |-> "content", raw |-> "hi"]>>,
     <<[key |-> "oldString", raw |-> "x"], [key |-> "newString", raw |-> "y"]>>,
     <<[key |-> "pattern", raw |-> "*.ts"]>>,
     <<[key |-> "include", raw |-> "src"]>>,
     <<[key |-> "path", raw |-> "/tmp"]>>,
     <<[key |-> "url", raw |-> "http://e.x"]>>,
     <<[key |-> "command", raw |-> "ls"]>>,
     <<[key |-> "todos", raw |-> "[]"]>> >>

RECURSIVE PoolPairs(_, _)
\* the pairs of the entries of InferPool chosen in S, from entry i on
PoolPairs(S, i) ==
  IF i > Len(InferPool) THEN <<>>
  ELSE (IF i \in S THEN InferPool[i] ELSE <<>>) \o PoolPairs(S, i + 1)

\* blocks without a name, with every choice of the arguments of InferPool
InferGivens == {[attr |-> <<>>, pairs |-> PoolPairs(S, 1)] : S \in SUBSET (1..Len(InferPool))}

\* blocks without a name for the rows of the inference table that InferPool
\* leaves out (batch, list, codesearch, websearch, task), and blocks whose
\* arguments fit no row
RowGivens ==
  {[attr |-> <<>>, pairs |-> ps] :
     ps \in {<<[key |-> "tool_calls", raw |-> "[]"], [key |-> "filePath", raw |-> "a.txt"]>>,
             <<[key |-> "path", raw |-> "/tmp"], [key |-> "ignore", raw |-> "[]"]>>,
             <<[key |-> "query", raw |-> "tla"], [key |-> "tokensNum", raw |-> "3"]>>,
             <<[key |-> "query", raw |-> "tla"], [key |-> "tokensNum", raw |-> "many"]>>,
             <<[key |-> "query", raw |-> "tla"]>>,
             <<[key |-> "prompt", raw |-> "go"], [key |-> "subagent_type", raw |-> "general"]>>,
             <<[key |-> "prompt", raw |-> "go"]>>,
             <<[key |-> "path", raw |-> "/tmp"], [key |-> "ignore", raw |-> "none"]>>,
             <<[key |-> "tool_calls", raw |-> "3"]>>}}

\* raw argument values with the JSON text of what coerceValue makes of them
CoerceTable ==
  {[raw |-> " true ", json |-> "true"],
   [raw |-> "3", json |-> "3"],
   [raw |-> "null", json |-> "null"],
   [raw |-> "[]", json |-> "[]"],
   [raw |-> "\"a.txt\"", json |-> "\"a.txt\""],
   [raw |-> " plain text ", json |-> "\"plain text\""],
   [raw |-> "", json |-> "\"\""],
   [raw |-> "\"open", json |-> "\"\\\"open\""]}

\* a block with a command and the argument v of the raw value of e
CoerceGiven(e) ==
  [attr |-> <<>>, pairs |-> <<[key |-> "command", raw |-> "ls"], [key |-> "v", raw |-> e.raw]>>]

\* the block of scenario A
ScenarioA ==
  [attr |-> <<>>,
   pairs |-> <<[key |-> "filePath", raw |-> "\"a.txt\""], [key |-> "content", raw |-> "\"hi\""]>>]

\* a command that is a number and a command that is a quoted string
NumberCommand == [attr |-> <<>>, pairs |-> <<[key |-> "command", raw |-> "3"]>>]

QuotedCommand == [attr |-> <<>>, pairs |-> <<[key |-> "command", raw |-> "\"ls\""]>>]

CoerceGivens == {CoerceGiven(e) : e \in CoerceTable} \cup {ScenarioA, NumberCommand, QuotedCommand}

ParserInit ==
  /\ blockGiven \in NamingGivens \cup InferGivens \cup RowGivens \cup CoerceGivens
  /\ blockText = BlockOf(blockGiven)
  /\ blockParsed = <<>>
  /\ Quiet /\ IdleExcept({"parser"})

\* parseToolCallBlock(blockText) returns
Parse ==
  /\ blockParsed = <<>>
  /\ blockParsed' = ParseToolCallBlock(blockText)
  /\ UNCHANGED <<blockGiven, blockText, trackerVars, streamVars, harnessVars, responseVars,
                 afterParser>>

ParserNext == Parse

SpecParser == ParserInit /\ [][ParserNext]_vars

(***************************************************************************)
(* SpecPair: two responses are sanitized at the same time.  Each call of   *)
(* sanitizeOpenAISseEventStream declares its variables in its own scope    *)
(* (part_015, lines 19-31 and 117); the callbacks of the two streams run   *)
(* in any order.                                                           *)
(***************************************************************************)

\* Responses stream: a block and a thinking marker cut between two deltas
PairFirst ==
  DataLine(TextDelta("a<tool_call name=\"ls\">b</th")) \o Sep
    \o DataLine(TextDelta("ink></tool_call>c")) \o Sep

\* Chat stream: a thinking marker cut between two contents, then a block
PairSecond ==
  DataLine(ChatChunk(<<ContentChoice(0, "x[thi")>>)) \o Sep
    \o DataLine(ChatChunk(<<ContentChoice(0, "nk]y" \o BlockAttr)>>)) \o Sep

PairInit ==
  /\ input = PairFirst
  /\ pos = 0 /\ closed = FALSE /\ cuts = {}
  /\ mode = NewStream.mode /\ buffer = NewStream.buffer
  /\ inToolCall = NewStream.inToolCall /\ toolCallBuffer = NewStream.toolCallBuffer
  /\ maxOutputIndex = NewStream.maxOutputIndex
  /\ danglingThinkPrefix = NewStream.danglingThinkPrefix
  /\ decPending = NewStream.decPending /\ uuid = NewStream.uuid
  /\ out = NewStream.out /\ log = NewStream.log
  /\ text = "" /\ fed = 0 /\ visAcc = "" /\ callsAcc = <<>> /\ thinkCuts = {}
  /\ peer = [st |-> NewStream, input |-> PairSecond, pos |-> 0, closed |-> FALSE]
  /\ IdleExcept({"peer"})

\* mutant: danglingThinkPrefix is one variable for all the calls
SharedDangling(own, other) == [own EXCEPT !.danglingThinkPrefix = other.danglingThinkPrefix]

\* the closure variables own of a call after a callback of another call,
\* which leaves the variables other behind: they are declared inside
\* sanitizeOpenAISseEventStream, so each call has its own
Untouched(own, other) == own

\* a callback of the second stream leaves st behind
PeerBecomes(st) == Becomes(Untouched(Stream, st))

\* the transport delivers the bytes peer.pos+1..q of the second body
PeerTransformChunk(q) ==
  /\ peer # <<>> /\ ~peer.closed /\ peer.pos < q /\ q <= Len(peer.input)
  /\ peer' = [peer EXCEPT !.st = Transform(peer.st, SubSeq(peer.input, peer.pos + 1, q)),
                          !.pos = q]
  /\ PeerBecomes(peer'.st)
  /\ UNCHANGED <<input, pos, closed, cuts, harnessVars, responseVars, parserVars, afterPeer>>

\* the second body ends
PeerFlushStream ==
  /\ peer # <<>> /\ ~peer.closed /\ peer.pos = Len(peer.input)
  /\ peer' = [peer EXCEPT !.st = Flush(peer.st), !.closed = TRUE]
  /\ PeerBecomes(peer'.st)
  /\ UNCHANGED <<input, pos, closed, cuts, harnessVars, responseVars, parserVars, afterPeer>>

PairNext ==
  \/ \E q \in 1..Len(input) : TransformChunk(q)
  \/ FlushStream
  \/ \E q \in 1..Len(PairSecond) : PeerTransformChunk(q)
  \/ PeerFlushStream

SpecPair == PairInit /\ [][PairNext]_vars

(***************************************************************************)
(* SpecHandler: the message transform hook (message-transformer.ts).       *)
(* A message is a record [info, parts]; a field a message lacks is absent  *)
(* from the record.                                                        *)
(***************************************************************************)

\* config.ts, lines 24-30
DefaultTargetModels ==
  <<"glm-4.6", "zai/glm-4.6", "zai-coding-plan/glm-4.6", "big-pickle", "opencode/big-pickle">>

\* mutant: every model is a target
ShouldEnhanceAny(modelId, targetModels) == TRUE

\* shouldEnhanceModel(modelId, targetModels)
ShouldEnhanceModel(modelId, targetModels) ==
  \E k \in 1..Len(targetModels) : Includes(modelId, targetModels[k])

\* thinking-prompts.ts, line 131
UltrathinkInstruction ==
  "Ultrathink before responding. You MUST begin your response with deep thinking about the task."

\* getUltrathinkPrefixText(prefix)
GetUltrathinkPrefixText(prefix) == UltrathinkInstruction

SuccessVariants ==
  << "Analyze the output carefully. If the result achieves the goal, proceed. If not, determine what else is needed.",
     "Review what was returned. Think through whether this completes the task or requires follow-up.",
     "Examine the results. Consider if any adjustments are needed before moving forward." >>

FailureVariants ==
  << "This failed. Analyze the error message carefully. Think about what went wrong and how to fix it.",
     "Error occurred. Stop and reason about the cause. What needs to change to succeed?",
     "Something went wrong. Before retrying, think through what the error means and how to correct it." >>

\* the outcomes of pick(items) on a list of three
Picks == 1..3

\* buildThinkingPrompt(prefix, failed), pick(...) returning the item p
BuildThinkingPrompt(prefix, failed, p) ==
  "Ultrathink about these results." \o " "
    \o (IF failed THEN FailureVariants[p] ELSE SuccessVariants[p])

UserAfterToolMarker == "[opencode-ultrathink:user-after-tool]"

ToolPartMarker == "[opencode-ultrathink:tool-part]"

\* utils.js, line 4
FailWords == <<"error", "failed", "exception", "traceback", "stack", "not found">>

\* JSON.parse(text) of the tool outputs that are JSON texts; on any other
\* output of the model JSON.parse throws
ToolOutputJson ==
  ("{\"status\":\"ok\"}" :> [status |-> "ok"])
    @@ ("{\"state\":\"pending\"}" :> [state |-> "pending"])

\* isToolOutputFailed(content) for an object: content.status ||
\* content.state || content.result || content.error outside the list of
\* good outcomes, or a string member holding a word of failure
ObjectFailed(content) ==
  LET status == IF Has(content, "status") /\ content.status # "" THEN content.status
                ELSE IF Has(content, "state") /\ content.state # "" THEN content.state
                ELSE IF Has(content, "result") /\ content.result # "" THEN content.result
                ELSE IF Has(content, "error") /\ content.error # "" THEN content.error
                ELSE ""
  IN  \/ /\ status # ""
         /\ ToLowerCase(status) \notin {"completed", "success", "succeeded", "ok", "done"}
      \/ \E f \in DOMAIN content :
           \E k \in 1..Len(FailWords) : Includes(ToLowerCase(content[f]), FailWords[k])

\* isToolOutputFailed(content) for a string: checkString
IsToolOutputFailed(content) ==
  \/ \E k \in 1..Len(FailWords) : Includes(ToLowerCase(content), FailWords[k])
  \/ /\ content \in DOMAIN ToolOutputJson
     /\ ObjectFailed(ToolOutputJson[content])

\* the model key of one message, Null if it names none (lines 32-46)
ModelKeyOf(info) ==
  IF info.role = "user" /\ Has(info, "model")
    THEN info.model.providerID \o "/" \o info.model.modelID
  ELSE IF info.role = "assistant" /\ Has(info, "providerID") /\ Has(info, "modelID")
    THEN info.providerID \o "/" \o info.modelID
  ELSE Null

\* getModelKeyFromMessages(messages): the last message naming a model
GetModelKeyFromMessages(messages) ==
  LET keyed == {i \in 1..Len(messages) : ModelKeyOf(messages[i].info) # Null}
  IN  IF keyed = {} THEN "" ELSE ModelKeyOf(messages[MaxOf(keyed)].info)

\* the session id one message carries, in its info or else in its first
\* part that has one; "" if none (lines 54-61)
SessionIDOf(msg) ==
  IF Has(msg.info, "sessionID") /\ Len(msg.info.sessionID) > 0 THEN msg.info.sessionID
  ELSE LET ps == {j \in 1..Len(msg.parts) :
                    Has(msg.parts[j], "sessionID") /\ Len(msg.parts[j].sessionID) > 0}
       IN  IF ps = {} THEN "" ELSE msg.parts[MinOf(ps)].sessionID

\* getSessionIDFromMessages(messages)
GetSessionIDFromMessages(messages) ==
  LET ms == {i \in 1..Len(messages) : SessionIDOf(messages[i]) # ""}
  IN  IF ms = {} THEN "" ELSE SessionIDOf(messages[MinOf(ms)])

\* isTextPart(part)
IsTextPart(part) == part.type = "text" /\ Has(part, "text")

\* the text part the handler puts in front
PrefixPart(prefixText) == [type |-> "text", text |-> prefixText]

\* ensureUltrathinkOnUserMessage(message, prefixText): the message after
\* the call
EnsureUltrathinkOnUserMessage(message, prefixText) ==
  IF message.info.role # "user" THEN message
  ELSE IF ~Has(message, "parts") THEN message
  ELSE LET texts == {j \in 1..Len(message.parts) : IsTextPart(message.parts[j])}
       IN  IF /\ texts # {}
              /\ StartsWith(ToLowerCase(TrimStart(message.parts[MinOf(texts)].text)),
                            "ultrathink")
             THEN message
           ELSE [message EXCEPT !.parts = <<PrefixPart(prefixText)>> \o @]

\* ensureUltrathinkOnAllUserMessages(messages, prefixText)
EnsureUltrathinkOnAllUserMessages(messages, prefixText) ==
  [i \in 1..Len(messages) |-> EnsureUltrathinkOnUserMessage(messages[i], prefixText)]

\* mutant: lite mode prefixes every user message
EnsureLastIsAll(messages, prefixText) ==
  EnsureUltrathinkOnAllUserMessages(messages, prefixText)

\* ensureUltrathinkOnLastUserMessage(messages, prefixText)
EnsureUltrathinkOnLastUserMessage(messages, prefixText) ==
  LET users == {i \in 1..Len(messages) : messages[i].info.role = "user"}
  IN  IF users = {} THEN messages
      ELSE [messages EXCEPT ![MaxOf(users)] = EnsureUltrathinkOnUserMessage(@, prefixText)]

\* part is a tool part that ended with the status
ToolPartWith(part, status) ==
  part.type = "tool" /\ Has(part, "state") /\ part.state.status = status

\* assistantHasToolParts(message)
AssistantHasToolParts(message) ==
  IF message.info.role # "assistant" \/ ~Has(message, "parts")
    THEN [hasTool |-> FALSE, failed |-> FALSE]
  ELSE [hasTool |-> \E j \in 1..Len(message.parts) :
                      \/ ToolPartWith(message.parts[j], "completed")
                      \/ ToolPartWith(message.parts[j], "error"),
        failed |-> \E j \in 1..Len(message.parts) : ToolPartWith(message.parts[j], "error")]

\* the text with the marker and a prompt appended (lines 151 and 161)
Appended(original, ultrathink) == original \o "\n\n" \o ToolPartMarker \o "\n" \o ultrathink

\* the body of the loop over the parts (lines 140-164): the part after it;
\* p is the item pick returns
AppendToPart(part, prefix, p) ==
  IF part.type # "tool" \/ ~Has(part, "state") THEN part
  ELSE IF ToolPartWith(part, "completed")
    THEN IF ~Has(part.state, "output") THEN part
         ELSE IF Len(part.state.output) = 0 THEN part
         ELSE IF Includes(part.state.output, ToolPartMarker) THEN part
         ELSE [part EXCEPT !.state.output =
                 Appended(@, BuildThinkingPrompt(prefix, IsToolOutputFailed(@), p))]
  ELSE IF ToolPartWith(part, "error")
    THEN IF ~Has(part.state, "error") THEN part
         ELSE IF Len(part.state.error) = 0 THEN part
         ELSE IF Includes(part.state.error, ToolPartMarker) THEN part
         ELSE [part EXCEPT !.state.error = Appended(@, BuildThinkingPrompt(prefix, TRUE, p))]
  ELSE part

\* the indices of the assistant messages with a part that gets a prompt
\* appended: the messages for which pick is called
AppendsAt(messages, prefix) ==
  {i \in 1..Len(messages) :
     /\ messages[i].info.role = "assistant" /\ Has(messages[i], "parts")
     /\ \E j \in 1..Len(messages[i].parts) :
          AppendToPart(messages[i].parts[j], prefix, 1) # messages[i].parts[j]}

\* appendUltrathinkToToolParts(messages, prefix); pick returns the item
\* picks[i] for the ended tool part of the message i (a message of the
\* model has at most one)
AppendUltrathinkToToolParts(messages, prefix, picks) ==
  [i \in 1..Len(messages) |->
     IF messages[i].info.role # "assistant" \/ ~Has(messages[i], "parts") THEN messages[i]
     ELSE [messages[i] EXCEPT !.parts =
             [j \in 1..Len(@) |->
                IF i \in DOMAIN picks THEN AppendToPart(@[j], prefix, picks[i]) ELSE @[j]]]]

\* the user message injectAfterToolMessages inserts (lines 188-200)
InjectedMessage(injectedID, now, ultrathink) ==
  [info |-> [role |-> "user", id |-> injectedID, created |-> now],
   parts |-> <<[type |-> "text", text |-> UserAfterToolMarker \o "\n" \o ultrathink]>>]

\* the id of the message injected after the assistant message at the
\* 0-based index i (lines 180-181)
InjectedIDFor(message, i) ==
  "ultrathink-after-"
    \o (IF Has(message.info, "id") THEN message.info.id ELSE "assistant-" \o ToString(i))

\* messages.splice(i + 1, 0, m) for a 0-based i
SpliceAfter(messages, i, m) ==
  SubSeq(messages, 1, i + 1) \o <<m>> \o SubSeq(messages, i + 2, Len(messages))

RECURSIVE InjectLoop(_, _, _, _, _, _)
\* the loop of injectAfterToolMessages from the 0-based index i on; pick
\* returns the item picks[k] at its k-th call
InjectLoop(messages, i, prefix, now, picks, k) ==
  IF i >= Len(messages) THEN messages
  ELSE LET message == messages[i + 1]
           has == AssistantHasToolParts(message)
           injectedID == InjectedIDFor(message, i)
       IN  IF ~has.hasTool THEN InjectLoop(messages, i + 1, prefix, now, picks, k)
           ELSE IF \E n \in 1..Len(messages) :
                     Has(messages[n].info, "id") /\ messages[n].info.id = injectedID
             THEN InjectLoop(messages, i + 1, prefix, now, picks, k)
           ELSE InjectLoop(
                  SpliceAfter(messages, i,
                    InjectedMessage(injectedID, now,
                                    BuildThinkingPrompt(prefix, has.failed, picks[k]))),
                  i + 2, prefix, now, picks, k + 1)

\* injectAfterToolMessages(messages, prefix)
InjectAfterToolMessages(messages, prefix, now, picks) ==
  InjectLoop(messages, 0, prefix, now, picks, 1)

\* the number of messages injectAfterToolMessages inserts: the number of
\* its calls of pick
Injections(messages, prefix) ==
  Len(InjectLoop(messages, 0, prefix, 0, [k \in 1..Len(messages) |-> 1], 1)) - Len(messages)

\* lines 243-247: what tool mode does to the messages
ToolModeTransform(messages, prefix, prefixText, now, picksA, picksI) ==
  InjectAfterToolMessages(
    AppendUltrathinkToToolParts(
      EnsureUltrathinkOnAllUserMessages(messages, prefixText), prefix, picksA),
    prefix, now, picksI)

\* line 249: what lite mode does to the messages
LiteModeTransform(messages, prefixText) ==
  EnsureUltrathinkOnLastUserMessage(messages, prefixText)

\* the handler enhances the messages of the run (lines 216, 221-223, 229)
Enhances(cfg, messages) ==
  cfg.enabled /\ ShouldEnhanceModel(GetModelKeyFromMessages(messages), cfg.targetModels)

\* output.messages after the handler of createTransformHandler(cfg, ...)
TransformedMessages(cfg, messages, now, picksA, picksI) ==
  IF ~Enhances(cfg, messages) THEN messages
  ELSE IF cfg.mode = "tool"
    THEN ToolModeTransform(messages, cfg.prefix,
                           GetUltrathinkPrefixText(cfg.prefix) \o "\n\n", now, picksA, picksI)
  ELSE LiteModeTransform(messages, GetUltrathinkPrefixText(cfg.prefix) \o "\n\n")

\* setSessionEnhanceState(sessionID, enhance, modelKey) at the time now
SetSessionEnhanceState(states, sessionID, enhance, modelKey, now) ==
  [s \in DOMAIN states \cup {sessionID} |->
     IF s = sessionID THEN [enhance |-> enhance, modelKey |-> modelKey, updatedAt |-> now]
     ELSE states[s]]

\* the model the messages of a conversation name
ZaiModel == [providerID |-> "zai", modelID |-> "glm-4.6"]

OtherModel == [providerID |-> "openai", modelID |-> "gpt-4o"]

UserPlain(m) ==
  [info |-> [role |-> "user", id |-> "u1", sessionID |-> "ses1", model |-> m],
   parts |-> <<[type |-> "text", text |-> "hello"]>>]

UserPrefixed(m) ==
  [info |-> [role |-> "user", id |-> "u2", model |-> m],
   parts |-> <<[type |-> "file"], [type |-> "text", text |-> " \nULTRATHINK now"]>>]

UserNoText ==
  [info |-> [role |-> "user", id |-> "u3"], parts |-> <<[type |-> "file"]>>]

AssistantCompleted(m) ==
  [info |-> [role |-> "assistant", id |-> "a1", providerID |-> m.providerID,
             modelID |-> m.modelID],
   parts |-> <<[type |-> "text", text |-> "running"],
               [type |-> "tool", sessionID |-> "ses1",
                state |-> [status |-> "completed", output |-> "{\"status\":\"ok\"}"]]>>]

AssistantError(m) ==
  [info |-> [role |-> "assistant", providerID |-> m.providerID, modelID |-> m.modelID],
   parts |-> <<[type |-> "tool", state |-> [status |-> "error", error |-> "boom"]]>>]

AssistantFailedOutput ==
  [info |-> [role |-> "assistant", id |-> "a3"],
   parts |-> <<[type |-> "tool", state |-> [status |-> "completed", output |-> "not found"]],
               [type |-> "tool", state |-> [status |-> "running"]]>>]

AssistantText(m) ==
  [info |-> [role |-> "assistant", id |-> "a4", providerID |-> m.providerID,
             modelID |-> m.modelID],
   parts |-> <<[type |-> "text", text |-> "done"]>>]

MessagePool(m) ==
  { UserPlain(m), UserPrefixed(m), UserNoText, AssistantCompleted(m), AssistantError(m),
    AssistantFailedOutput, AssistantText(m) }

MaxMessages == 2

\* the conversations: up to MaxMessages different messages of one model
Conversations ==
  UNION { {ms \in UNION {[1..n -> MessagePool(m)] : n \in 0..MaxMessages} :
             \A i, j \in 1..Len(ms) : i # j => ms[i] # ms[j]}
          : m \in {ZaiModel, OtherModel} }

Configs ==
  [enabled : BOOLEAN, mode : {"lite", "tool"}, targetModels : {DefaultTargetModels},
   prefix : {"Ultrathink: "}]

\* the values Date.now() returns
Times == 1..2

MaxRuns == 2

HandlerInit ==
  /\ pluginConfig \in Configs
  /\ messagesGiven \in Conversations
  /\ messagesBefore = messagesGiven
  /\ outputMessages = messagesGiven
  /\ hookState = [messageTransform |-> [lastFired |-> 0, lastSuccess |-> 0]]
  /\ sessionEnhance = <<>>
  /\ runs = 0
  /\ hookLog = <<>>
  /\ Quiet /\ IdleExcept({"handler"})

\* one run of the handler on output.messages; the calls of Date.now() of
\* a run fall in the same millisecond now
Handle ==
  /\ runs < MaxRuns
  /\ \E now \in Times :
     \E picksA \in [AppendsAt(outputMessages, pluginConfig.prefix) -> Picks] :
     \E picksI \in [1..Injections(outputMessages, pluginConfig.prefix) -> Picks] :
       LET sessionID == GetSessionIDFromMessages(outputMessages)
           modelKey == GetModelKeyFromMessages(outputMessages)
           after == TransformedMessages(pluginConfig, outputMessages, now, picksA, picksI)
       IN  /\ outputMessages' = after
           /\ messagesBefore' = outputMessages
           /\ hookState' =
                [messageTransform |->
                   [lastFired |-> now,
                    lastSuccess |-> IF after # outputMessages THEN now
                                    ELSE hookState.messageTransform.lastSuccess]]
           /\ sessionEnhance' =
                IF pluginConfig.enabled /\ sessionID # ""
                  THEN SetSessionEnhanceState(sessionEnhance, sessionID,
                         ShouldEnhanceModel(modelKey, pluginConfig.targetModels), modelKey, now)
                ELSE sessionEnhance
  /\ runs' = runs + 1
  /\ UNCHANGED <<pluginConfig, messagesGiven, hookLog, trackerVars, streamVars, harnessVars,
                 responseVars, parserVars, peerVars, afterHandler>>

HandlerNext == Handle

SpecHandler == HandlerInit /\ [][HandlerNext]_vars

(***************************************************************************)
(* SpecSession: the two hooks of one plugin at work on several sessions.   *)
(* The host runs the message transform hook on the messages of a session   *)
(* and the tool execute hook (part_008) on the output of a tool of a       *)
(* session, in any order.  Both read the same config, and the map of       *)
(* session-state.ts is shared by them.                                     *)
(***************************************************************************)

ToolOutputMarker == "[opencode-ultrathink:tool-output]"

\* mutant: a session is enhanced once a transform has recorded it
ShouldEnhanceSeenSession(states, sessionID) == sessionID \in DOMAIN states

\* shouldEnhanceSession(sessionID) on the map states
ShouldEnhanceSession(states, sessionID) ==
  sessionID \in DOMAIN states /\ states[sessionID].enhance

\* Boolean(output?.metadata?.error)
MetadataError(toolOutput) ==
  Has(toolOutput, "metadata") /\ Has(toolOutput.metadata, "error") /\ toolOutput.metadata.error

\* the output object after the hook of createToolExecuteHook(cfg, ...) ran
\* on it (lines 24-47); p is the item pick returns
ToolExecuteHook(cfg, states, toolInput, toolOutput, p) ==
  IF ~cfg.enabled \/ cfg.mode # "tool" THEN toolOutput
  ELSE IF ~ShouldEnhanceSession(states, toolInput.sessionID) THEN toolOutput
  ELSE IF ~Has(toolOutput, "output") THEN toolOutput
  ELSE IF Len(toolOutput.output) = 0 THEN toolOutput
  ELSE IF Includes(toolOutput.output, ToolOutputMarker) THEN toolOutput
  ELSE [toolOutput EXCEPT !.output =
          @ \o "\n\n" \o ToolOutputMarker \o "\n"
            \o BuildThinkingPrompt(cfg.prefix,
                                   IsToolOutputFailed(@) \/ MetadataError(toolOutput), p)]

\* the sessions of the host
Sessions == {"ses1", "ses2"}

\* a user message of the session s written for the model m
UserOf(s, m) ==
  [info |-> [role |-> "user", id |-> "u1", sessionID |-> s, model |-> m],
   parts |-> <<[type |-> "text", text |-> "hello"]>>]

\* the message lists the host hands to the transform hook, with the session
\* they belong to ("" for none) and whether their model is a target model:
\* a user message of each session for each model, a list that names no
\* session, and a list whose session is named by a tool part only
SessionRuns ==
  {[sessionID |-> s, target |-> (m = ZaiModel), messages |-> <<UserOf(s, m)>>] :
     s \in Sessions, m \in {ZaiModel, OtherModel}}
    \cup {[sessionID |-> "", target |-> TRUE, messages |-> <<AssistantText(ZaiModel)>>],
          [sessionID |-> "ses1", target |-> TRUE, messages |-> <<AssistantCompleted(ZaiModel)>>]}

\* the output objects the host hands to the tool execute hook
ToolOutputs ==
  {[title |-> "ls", output |-> "a.txt"],
   [title |-> "ls", output |-> "done", metadata |-> [error |-> TRUE]],
   [title |-> "ls", output |-> ""],
   [title |-> "ls"],
   [title |-> "ls", output |-> "a.txt\n\n" \o ToolOutputMarker \o "\nUltrathink"]}

MaxHookCalls == 3

\* Date.now(): the calls of the hooks fall one millisecond apart
Clock == Len(hookLog) + 1

SessionInit ==
  /\ pluginConfig \in Configs
  /\ messagesGiven = <<>> /\ messagesBefore = <<>> /\ outputMessages = <<>>
  /\ hookState = [messageTransform |-> [lastFired |-> 0, lastSuccess |-> 0],
                  toolExecute |-> [lastFired |-> 0, lastSuccess |-> 0]]
  /\ sessionEnhance = <<>>
  /\ runs = 0
  /\ hookLog = <<>>
  /\ Quiet /\ IdleExcept({"handler"})

\* the handler of createTransformHandler runs on the messages of g
TransformSession(g) ==
  /\ Len(hookLog) < MaxHookCalls
  /\ \E picksA \in [AppendsAt(g.messages, pluginConfig.prefix) -> Picks] :
     \E picksI \in [1..Injections(g.messages, pluginConfig.prefix) -> Picks] :
       LET sessionID == GetSessionIDFromMessages(g.messages)
           modelKey == GetModelKeyFromMessages(g.messages)
           after == TransformedMessages(pluginConfig, g.messages, Clock, picksA, picksI)
       IN  /\ outputMessages' = after
           /\ hookState' =
                [hookState EXCEPT !.messageTransform =
                   [lastFired |-> Clock,
                    lastSuccess |-> IF after # g.messages THEN Clock ELSE @.lastSuccess]]
           /\ sessionEnhance' =
                IF pluginConfig.enabled /\ sessionID # ""
                  THEN SetSessionEnhanceState(sessionEnhance, sessionID,
                         ShouldEnhanceModel(modelKey, pluginConfig.targetModels), modelKey,
                         Clock)
                ELSE sessionEnhance
  /\ messagesGiven' = g.messages
  /\ messagesBefore' = g.messages
  /\ runs' = runs + 1
  /\ hookLog' = Append(hookLog, [op |-> "transform", sessionID |-> g.sessionID,
                                 target |-> g.target])
  /\ UNCHANGED <<pluginConfig, trackerVars, streamVars, harnessVars, responseVars, parserVars,
                 peerVars, afterHandler>>

\* the hook of createToolExecuteHook runs on the output toolOutput of a
\* tool of the session sessionID (lines 20-53)
ToolExecuteAfter(sessionID, toolOutput) ==
  /\ Len(hookLog) < MaxHookCalls
  /\ \E p \in Picks :
       LET after == ToolExecuteHook(pluginConfig, sessionEnhance,
                                    [tool |-> "bash", sessionID |-> sessionID], toolOutput, p)
       IN  /\ hookState' =
                [hookState EXCEPT !.toolExecute =
                   [lastFired |-> Clock,
                    lastSuccess |-> IF after # toolOutput THEN Clock ELSE @.lastSuccess]]
           /\ hookLog' = Append(hookLog, [op |-> "hook", sessionID |-> sessionID,
                                          given |-> toolOutput, returned |-> after])
  /\ UNCHANGED <<pluginConfig, messagesGiven, messagesBefore, outputMessages, sessionEnhance,
                 runs, trackerVars, streamVars, harnessVars, responseVars, parserVars,
                 peerVars, afterHandler>>

SessionNext ==
  \/ \E g \in SessionRuns : TransformSession(g)
  \/ \E sessionID \in Sessions, toolOutput \in ToolOutputs :
       ToolExecuteAfter(sessionID, toolOutput)

SpecSession == SessionInit /\ [][SessionNext]_vars

(***************************************************************************)
(* SpecFetch: the fetch installed by initializeFetchWrapper                *)
(* (fetch-wrapper.ts).  A body is [kind |-> "stream"] when it is not a     *)
(* string, [kind |-> "text", text] for a string that is not a JSON text    *)
(* and [kind |-> "json", value, canon] for a JSON text of the value, canon *)
(* telling whether it is written as JSON.stringify writes it.  The content *)
(* of a message of a request is a string.                                  *)
(***************************************************************************)

\* parseJson(raw): the value, <<>> for null
ParseJsonBody(raw) == IF raw.kind = "json" THEN raw.value ELSE <<>>

\* JSON.stringify(parsedBody)
StringifyBody(parsedBody) == [kind |-> "json", value |-> parsedBody, canon |-> TRUE]

\* !init?.body || typeof init.body !== "string"
NoStringBody(init) ==
  \/ ~Has(init, "body")
  \/ init.body.kind = "stream"
  \/ (init.body.kind = "text" /\ init.body.text = "")

\* typeof parsedBody?.model === "string" ? parsedBody.model : ""
ModelIdOf(parsedBody) == IF Has(parsedBody, "model") THEN parsedBody.model ELSE ""

\* config.targetModels ?? []
TargetModelsOf(cfg) == IF Has(cfg, "targetModels") THEN cfg.targetModels ELSE <<>>

\* buildThinkingPrompt(prefix, failed) of the request injector
\* (part_016, lines 206-211)
RequestThinkingPrompt(prefix, failed) ==
  IF failed
    THEN prefix \o "Tool output failed. Consider re-running the tool or re-reading the file before editing it."
  ELSE prefix \o "Analyze the tool output and continue."

RECURSIVE AfterToolLoop(_, _, _)
\* the first loop of injectIntoOpenAIMessages from the 0-based index i on
\* (part_016, lines 20-52): a prompt after every tool output
AfterToolLoop(messages, i, prefix) ==
  IF i >= Len(messages) THEN messages
  ELSE IF messages[i + 1].role \in {"tool", "function"}
    THEN AfterToolLoop(
           SpliceAfter(messages, i,
             [role |-> "user",
              content |-> RequestThinkingPrompt(prefix,
                            IsToolOutputFailed(messages[i + 1].content))]),
           i + 2, prefix)
  ELSE AfterToolLoop(messages, i + 1, prefix)

\* the loop over the user messages from the last one back (part_016, lines
\* 60-71 and 95-105): the first whose content does not start with the
\* prefix gets it
PrefixLastUser(messages, prefix) ==
  LET open == {i \in 1..Len(messages) :
                 messages[i].role = "user" /\ ~StartsWith(messages[i].content, prefix)}
  IN  IF open = {} THEN [messages |-> messages, modified |-> FALSE]
      ELSE [messages |-> [messages EXCEPT ![MaxOf(open)].content = prefix \o @],
            modified |-> TRUE]

\* injectIntoOpenAIMessages(messages, prefix, toolMode): the messages
\* after the call and the value returned
InjectIntoOpenAIMessages(messages, prefix, toolMode) ==
  LET after == AfterToolLoop(messages, 0, prefix)
      modified == after # messages
  IN  IF Len(messages) = 0 THEN [messages |-> messages, modified |-> FALSE]
      ELSE IF ~toolMode \/ modified THEN [messages |-> after, modified |-> modified]
      ELSE PrefixLastUser(messages, prefix)

\* injectLitePrefix(messages, prefix)
InjectLitePrefix(messages, prefix) == PrefixLastUser(messages, prefix)

\* injectIntoAnthropicMessages(messages, prefix, toolMode): both its loops
\* skip a message whose content is not an array (part_016, lines 134 and
\* 155)
InjectIntoAnthropicMessages(messages, prefix, toolMode) ==
  [messages |-> messages, modified |-> FALSE]

\* lines 36-59: init.body after the injection
InjectedBody(cfg, init, parsedBody) ==
  IF ~Has(parsedBody, "messages") THEN init.body
  ELSE LET toolMode == cfg.mode = "tool"
           first == IF toolMode
                      THEN InjectIntoOpenAIMessages(parsedBody.messages, cfg.prefix, toolMode)
                    ELSE InjectLitePrefix(parsedBody.messages, cfg.prefix)
           second == IF toolMode
                       THEN InjectIntoAnthropicMessages(first.messages, cfg.prefix, toolMode)
                     ELSE [messages |-> first.messages, modified |-> FALSE]
       IN  IF first.modified \/ second.modified
             THEN StringifyBody([parsedBody EXCEPT !.messages = second.messages])
           ELSE init.body

\* the fetch goes past the two early returns (lines 22 and 29)
Acts(cfg, init) ==
  /\ cfg.enabled /\ ~NoStringBody(init)
  /\ ShouldEnhanceModel(ModelIdOf(ParseJsonBody(init.body)), TargetModelsOf(cfg))

\* options.injectRequests === true, options.sanitizeResponses === true
IsTrue(opts, option) == Has(opts, option) /\ opts[option]

\* the init originalFetch is called with
ForwardedInit(cfg, opts, init) ==
  IF ~Acts(cfg, init) THEN init
  ELSE IF IsTrue(opts, "injectRequests") /\ ParseJsonBody(init.body) # <<>>
    THEN [init EXCEPT !.body = InjectedBody(cfg, init, ParseJsonBody(init.body))]
  ELSE init

\* the options sanitizeModelResponse is called with (lines 68-70)
SanitizeOptions(parsedBody) ==
  [likelySse |-> Has(parsedBody, "stream") /\ parsedBody.stream]

\* the fetch calls sanitizeModelResponse on the response (lines 22-34, 63)
Sanitizes(cfg, opts, init) == Acts(cfg, init) /\ IsTrue(opts, "sanitizeResponses")

ChatRequest(model, messages, stream) ==
  [model |-> model, messages |-> messages, stream |-> stream]

RequestMessages ==
  { <<[role |-> "user", content |-> "hi"]>>,
    <<[role |-> "user", content |-> "Ultrathink: hi"], [role |-> "assistant", content |-> "yes"],
      [role |-> "tool", content |-> "not found"]>> }

JsonBodies ==
  {[kind |-> "json", value |-> ChatRequest(m, ms, st), canon |-> FALSE] :
     m \in {"glm-4.6", "opencode/big-pickle-free", "gpt-4o"}, ms \in RequestMessages,
     st \in BOOLEAN}
    \cup {[kind |-> "json", value |-> [messages |-> <<[role |-> "user", content |-> "hi"]>>],
           canon |-> TRUE],
          [kind |-> "json", value |-> [scalar |-> "5"], canon |-> TRUE]}

\* the init of the calls; <<>> is a call without init
InitsIn ==
  {<<>>, [method |-> "GET"], [method |-> "POST", body |-> [kind |-> "stream"]],
   [method |-> "POST", body |-> [kind |-> "text", text |-> ""]],
   [method |-> "POST", body |-> [kind |-> "text", text |-> "model=glm-4.6"]]}
    \cup {[method |-> "POST", body |-> b] : b \in JsonBodies}

FetchConfigs ==
  [enabled : BOOLEAN, prefix : {"Ultrathink: "}, mode : {"lite", "tool"},
   targetModels : {DefaultTargetModels}]
    \cup [enabled : {TRUE}, prefix : {"Ultrathink: "}, mode : {"lite"}]

FetchOptions ==
  {<<>>, [injectRequests |-> TRUE], [sanitizeResponses |-> TRUE],
   [injectRequests |-> TRUE, sanitizeResponses |-> TRUE],
   [injectRequests |-> FALSE, sanitizeResponses |-> FALSE]}

\* the responses of the original fetch
UpstreamResponses ==
  { MakeResponse([status |-> 200, statusText |-> "OK"],
                 HeadersOf("application/json", TRUE), TRUE, BodyCalls),
    MakeResponse([status |-> 200, statusText |-> "OK"],
                 HeadersOf(Null, FALSE), TRUE, StreamResponses),
    MakeResponse([status |-> 429, statusText |-> "Too Many Requests"],
                 HeadersOf("text/plain", TRUE), FALSE, <<>>) }

FetchInit ==
  /\ fetchConfig \in FetchConfigs /\ fetchOptions \in FetchOptions
  /\ fetchInit \in InitsIn
  /\ forwarded = <<>> /\ upstream = <<>> /\ delivered = <<>> /\ sanitizeCalls = <<>>
  /\ Quiet /\ IdleExcept({"fetch"})

\* the caller calls fetch(input, init); the fetch runs up to its call of
\* originalFetch (lines 22-61)
CallFetch ==
  /\ forwarded = <<>>
  /\ forwarded' = [init |-> ForwardedInit(fetchConfig, fetchOptions, fetchInit)]
  /\ UNCHANGED <<fetchConfig, fetchOptions, fetchInit, upstream, delivered, sanitizeCalls,
                 trackerVars, streamVars, harnessVars, responseVars, parserVars, peerVars,
                 handlerVars>>

\* originalFetch answers and the fetch returns (lines 23, 30, 61-78)
ReturnFetch ==
  /\ forwarded # <<>> /\ delivered = <<>>
  /\ \E resp \in UpstreamResponses :
       /\ upstream' = resp
       /\ IF Sanitizes(fetchConfig, fetchOptions, fetchInit)
            THEN LET opts == SanitizeOptions(ParseJsonBody(fetchInit.body))
                 IN  /\ sanitizeCalls' = Append(sanitizeCalls, [response |-> resp, options |-> opts])
                     /\ delivered' = SanitizeModelResponse(resp, opts)
          ELSE /\ sanitizeCalls' = sanitizeCalls
               /\ delivered' = resp
  /\ UNCHANGED <<fetchConfig, fetchOptions, fetchInit, forwarded,
                 trackerVars, streamVars, harnessVars, responseVars, parserVars, peerVars,
                 handlerVars>>

FetchNext == CallFetch \/ ReturnFetch

SpecFetch == FetchInit /\ [][FetchNext]_vars

(***************************************************************************)
(* Properties of the tracker (SpecTracker).                                *)
(***************************************************************************)

\* the visible text the last FeedFragment step returned
StepVisible == SliceFrom(visAcc', Len(visAcc))

\* the fragment the last FeedFragment step fed
StepFragment == Slice(text, fed, fed')

\* the first k characters of the marker m
MarkerPrefix(m, k) == Slice(m, 0, k)

\* C1: chunk-split invariance.  For every text with a complete block that
\* parseToolCallBlock accepts, once the whole text has been fed, in
\* whatever fragments, the recovered tool calls and the concatenated
\* visible text are those of feeding the text as one fragment.
C1_ChunkSplitInvariance ==
  LET Same(whole) ==
        whole.toolCalls # <<>> => (callsAcc = whole.toolCalls /\ visAcc = whole.visibleText)
  IN  (fed = Len(text) /\ text # "") => Same(Whole(text))

\* C2: a fragment that ends, with the tracker OUTSIDE, in a non-empty
\* proper prefix of "<tool_call" does not emit that suffix as visible text
\* (it is withheld for the next fragment), and a closing marker cut at a
\* fragment boundary still closes its block: after the whole text the
\* tracker is OUTSIDE exactly when it is after a single fragment.
C2_CutMarkerWithheld ==
  /\ [][\A k \in 1..(Len(OpenMarker) - 1) :
          (fed' > fed /\ ~inToolCall'
             /\ EndsWith(ToLowerCase(StepFragment), MarkerPrefix(OpenMarker, k)))
          => ~EndsWith(ToLowerCase(StepVisible), MarkerPrefix(OpenMarker, k))]_vars
  /\ []((fed = Len(text) /\ text # "") => inToolCall = Whole(text).inToolCall)

\* the characters of the thinking markers, in both letter cases
ThinkMarkerChars ==
  {"<", ">", "[", "]", "/", "t", "h", "i", "n", "k", "T", "H", "I", "N", "K"}

\* no character of a thinking marker occurs in s
NoThinkMarkerChar(s) == \A i \in 1..Len(s) : SubSeq(s, i, i) \notin ThinkMarkerChars

\* the texts made of one thinking marker between two letters
ThinkTexts == {t \in TrackerTexts : Len(t) <= 10}

\* the cut q is inside a thinking marker and the part of the marker before
\* the cut contains "th"
CutAfterTh(s, q) ==
  \E i \in Max(0, q - 7)..(q - 1) : \E m \in ThinkMarkers :
     /\ ToLowerCase(Slice(s, i, i + Len(m))) = m /\ q < i + Len(m)
     /\ Includes(MarkerPrefix(m, q - i), "th")

\* C3 as stated: a thinking marker cut at any position strictly inside it
\* leaves none of its characters in the visible text.
C3_NoMarkerCharLeaks ==
  (text \in ThinkTexts /\ Cardinality(thinkCuts) = 1) => NoThinkMarkerChar(visAcc)

\* C3 amended: a thinking marker cut strictly inside it, at a position
\* where the part before the cut already contains "th" (3 or more
\* characters of an opening marker, 4 or more of a closing one), leaves
\* none of its characters in the visible text of either fragment.
C3_NoMarkerCharLeaksAfterTh ==
  (text \in ThinkTexts /\ Cardinality(thinkCuts) = 1 /\ \A q \in thinkCuts : CutAfterTh(text, q))
    => NoThinkMarkerChar(visAcc)

\* C3 witness: a marker was cut after its "th", the text is fed to the end
\* and only the two letters around the marker are visible
C3_Witness ==
  /\ text \in ThinkTexts /\ fed = Len(text)
  /\ Cardinality(thinkCuts) = 1 /\ \A q \in thinkCuts : CutAfterTh(text, q)
  /\ visAcc = "ab"

\* C31: after each fragment the accumulation buffer is non-empty only if
\* the tracker is inside a block; a block that is left, parsed or
\* rejected, leaves the buffer empty
C31_BufferOnlyInsideBlock == toolCallBuffer # "" => inToolCall

\* the tracker entered and left a block the parser rejected: no call was
\* recovered, the letters around the block are the visible text and the
\* buffer is empty
C31_Witness ==
  /\ text = TextRejected /\ fed = Len(text)
  /\ ~inToolCall /\ toolCallBuffer = ""
  /\ callsAcc = <<>> /\ visAcc = "xy"

(***************************************************************************)
(* Properties of the SSE transformer (Spec).                               *)
(***************************************************************************)

\* the tracker as the log entry e found it
TrackerBefore(e) ==
  [inToolCall |-> e.before.inToolCall, toolCallBuffer |-> e.before.toolCallBuffer,
   danglingThinkPrefix |-> e.before.danglingThinkPrefix]

\* the log entry e is a response.output_text.delta event rewritten in
\* Responses mode
IsResponsesDelta(e) ==
  /\ e.kind = "json" /\ e.after.mode = "responses"
  /\ Has(e.json[1], "type") /\ e.json[1].type = "response.output_text.delta"
  /\ Has(e.json[1], "delta")

\* what the tracker recovers from the delta of the log entry e
DeltaExtract(e) == ExtractToolCallsFromText(TrackerBefore(e), e.json[1].delta)

\* the chunks 3c-1, 3c, 3c+1 of the log entry e are the three events of the
\* tool call tc
ThreeEventsAt(e, c, tc) ==
  LET added == e.chunks[3 * c - 1]
      args  == e.chunks[3 * c]
      done  == e.chunks[3 * c + 1]
  IN  /\ added.type = "response.output_item.added"
      /\ added.item.type = "function_call" /\ added.item.arguments = ""
      /\ added.item.name = tc.toolName
      /\ args.type = "response.function_call_arguments.delta"
      /\ args.delta = tc.arguments
      /\ done.type = "response.output_item.done"
      /\ done.item.type = "function_call" /\ done.item.status = "completed"
      /\ done.item.name = tc.toolName /\ done.item.arguments = tc.arguments
      /\ added.output_index = args.output_index /\ args.output_index = done.output_index
      /\ added.item.id = args.item_id /\ args.item_id = done.item.id

\* C4: in Responses mode a response.output_text.delta event from which
\* k >= 1 tool calls are recovered is emitted as the same event with the
\* visible text as its delta, then three events per call in the order
\* found (item added with empty arguments, arguments delta with the full
\* arguments, item done with status completed); the three events of a call
\* share the output_index and the item id, two calls differ in
\* output_index.
C4_ResponsesReEmit ==
  \A n \in 1..Len(log) :
     LET e == log[n]
         Shape(r) ==
           Len(r.toolCalls) >= 1 =>
             /\ Len(e.chunks) = 1 + 3 * Len(r.toolCalls)
             /\ e.chunks[1] = [e.json[1] EXCEPT !.delta = r.visibleText]
             /\ \A c \in 1..Len(r.toolCalls) : ThreeEventsAt(e, c, r.toolCalls[c])
             /\ \A c, d \in 1..Len(r.toolCalls) :
                  c # d => e.chunks[3 * c].output_index # e.chunks[3 * d].output_index
             /\ e.emitted = EmitChunks(e.chunks)
     IN  IsResponsesDelta(e) => Shape(DeltaExtract(e))

\* C4 witness: a delta event with two tool calls was emitted as seven
\* events
C4_Witness ==
  \E n \in 1..Len(log) :
     /\ IsResponsesDelta(log[n]) /\ Len(log[n].chunks) = 7
     /\ log[n].chunks[3].output_index # log[n].chunks[6].output_index

\* the log entry e is an event with choices rewritten in Chat mode
IsChatChunk(e) == e.kind = "json" /\ e.after.mode = "chat" /\ Has(e.json[1], "choices")

\* the chunks at+1 and at+2 of the log entry e are the two events of the
\* tool call number callIndex of the choice number choiceIndex
TwoEventsAt(e, at, choiceIndex, callIndex, tc) ==
  LET open  == e.chunks[at + 1]
      close == e.chunks[at + 2]
  IN  /\ Len(open.choices) = 1 /\ Len(close.choices) = 1
      /\ open.choices[1].index = choiceIndex
      /\ Len(open.choices[1].delta.tool_calls) = 1
      /\ DOMAIN open.choices[1].delta = {"tool_calls"}
      /\ open.choices[1].delta.tool_calls[1].index = callIndex
      /\ StartsWith(open.choices[1].delta.tool_calls[1].id, "call_")
      /\ open.choices[1].delta.tool_calls[1].function =
           [name |-> tc.toolName, arguments |-> tc.arguments]
      /\ open.choices[1].finish_reason = Null
      /\ close.choices[1].index = choiceIndex
      /\ close.choices[1].delta = <<>>
      /\ close.choices[1].finish_reason = "tool_calls"

RECURSIVE ChatFollows(_, _, _, _)
\* from the choice i on, with the tracker tr and `at` chunks accounted for:
\* the first chunk of the log entry e holds each choice with its content
\* cleaned, and the chunks after `at` are the pairs of the tool calls of
\* the choices in order, and nothing else
ChatFollows(e, i, tr, at) ==
  IF i > Len(e.json[1].choices) THEN at = Len(e.chunks)
  ELSE IF ~HasContent(e.json[1].choices[i])
  THEN e.chunks[1].choices[i] = e.json[1].choices[i] /\ ChatFollows(e, i + 1, tr, at)
  ELSE LET Cleaned(r) ==
             /\ e.chunks[1].choices[i] =
                  [e.json[1].choices[i] EXCEPT !.delta = [@ EXCEPT !.content = r.visibleText]]
             /\ at + 2 * Len(r.toolCalls) <= Len(e.chunks)
             /\ \A c \in 1..Len(r.toolCalls) :
                  TwoEventsAt(e, at + 2 * (c - 1), i - 1, c - 1, r.toolCalls[c])
             /\ ChatFollows(e, i + 1,
                            [inToolCall |-> r.inToolCall, toolCallBuffer |-> r.toolCallBuffer,
                             danglingThinkPrefix |-> r.danglingThinkPrefix],
                            at + 2 * Len(r.toolCalls))
       IN  Cleaned(ExtractToolCallsFromText(tr, e.json[1].choices[i].delta.content))

\* C5: in Chat mode an event whose choices carry a string delta.content is
\* emitted with the content replaced by the visible text, followed for
\* each recovered tool call, in the order found, by exactly two events:
\* one whose single choice has delta.tool_calls with one entry (index,
\* generated call id, function name, full arguments) and finish_reason
\* null, then one whose single choice has an empty delta and finish_reason
\* "tool_calls"; with no recovered tool call exactly one event is emitted.
C5_ChatReEmit ==
  \A n \in 1..Len(log) :
     IsChatChunk(log[n]) =>
       /\ Len(log[n].chunks) >= 1
       /\ Len(log[n].chunks[1].choices) = Len(log[n].json[1].choices)
       /\ ChatFollows(log[n], 1, TrackerBefore(log[n]), 1)
       /\ log[n].emitted = EmitChunks(log[n].chunks)

\* C5 witness: one chat event with tool calls in its contents was emitted
\* as five events, and one without as a single event
C5_Witness ==
  /\ \E n \in 1..Len(log) : IsChatChunk(log[n]) /\ Len(log[n].chunks) = 5
  /\ \E n \in 1..Len(log) : IsChatChunk(log[n]) /\ Len(log[n].chunks) = 1

\* the output_index values of the synthesized events of the log entry e
SynthesizedIndices(e) ==
  IF IsResponsesDelta(e) THEN {e.chunks[c].output_index : c \in 2..Len(e.chunks)} ELSE {}

\* the output_index of the genuine event of the log entry e, if it has one
GenuineIndices(e) ==
  IF e.kind = "json" /\ Has(e.json[1], "output_index") THEN {e.json[1].output_index} ELSE {}

\* C6: within one stream the output_index of a synthesized function-call
\* event never equals the output_index of a genuine event, whether the
\* genuine event arrives before or after the synthesized one.
C6_SynthesizedIndexFresh ==
  \A n, m \in 1..Len(log) : SynthesizedIndices(log[n]) \cap GenuineIndices(log[m]) = {}

\* C7: however the transport cut the bytes delivered so far, the bytes
\* emitted are those emitted when they arrive as a single chunk, and once
\* the body has ended they are those of the whole body arriving as a single
\* chunk followed by flush.
C7_ResegmentationInvariance ==
  /\ ~closed => out = Transform(NewStream, SubSeq(input, 1, pos)).out
  /\ closed => out = RunWhole(input).out

\* C7 witness: a body that ended after the transport cut it inside a
\* blank-line boundary, inside a JSON payload, inside a two-byte character
\* and inside a line, with events rewritten
C7_Witness ==
  /\ closed /\ cuts = {"boundary", "payload", "char", "line"}
  /\ \E n \in 1..Len(log) : Len(log[n].chunks) > 1

\* the first log entry that carries a JSON payload, 0 if none
FirstJsonEntry ==
  LET S == {n \in 1..Len(log) : log[n].kind = "json"}
  IN  IF S = {} THEN 0 ELSE MinOf(S)

\* C8: the mode is decided once, by the first event that carries a JSON
\* payload: from then on the mode is what detectMode gives for that
\* payload, and if that is "unknown" no later event is rewritten.
C8_ModeDecidedOnce ==
  FirstJsonEntry # 0 =>
    /\ mode = DetectMode(log[FirstJsonEntry].json[1])
    /\ DetectMode(log[FirstJsonEntry].json[1]) = "unknown" =>
         \A n \in 1..Len(log) : log[n].kind = "json" => log[n].chunks = log[n].json

\* C9: while the mode is unknown every event is emitted as its raw text,
\* all of its lines, followed by the blank-line boundary.
C9_UnknownVerbatim ==
  \A n \in 1..Len(log) :
     log[n].after.mode = "unknown" => log[n].emitted = log[n].block \o Sep

RECURSIVE EmittedBytes(_, _)
\* the bytes of the emitted texts of the log entries a..b
EmittedBytes(a, b) ==
  IF a > b THEN <<>>
  ELSE IF a = b THEN Encode(log[a].emitted)
  ELSE EmittedBytes(a, (a + b) \div 2) \o EmittedBytes((a + b) \div 2 + 1, b)

\* C10: an event without a data line, and an event whose payload is
\* neither [DONE] nor JSON, is emitted once as its raw text followed by the
\* blank-line boundary, and leaves the mode, the tracker and the highest
\* output index as they were; the output holds the emitted text of every
\* event, in order.
C10_RawPassThrough ==
  /\ \A n \in 1..Len(log) :
        log[n].kind \in {"nodata", "badjson"} =>
          /\ log[n].emitted = log[n].block \o Sep
          /\ log[n].after = log[n].before
  /\ ~closed => out = EmittedBytes(1, Len(log))

\* C10 witness: inside a tool-call block, in Responses mode, one event
\* without a data line and one with a broken payload were passed
C10_Witness ==
  /\ \E n \in 1..Len(log) :
        log[n].kind = "nodata" /\ log[n].before.inToolCall /\ log[n].before.mode = "responses"
  /\ \E n \in 1..Len(log) :
        log[n].kind = "badjson" /\ log[n].before.inToolCall
          /\ log[n].before.maxOutputIndex = 0

\* the log entries that are response.output_text.delta events
DeltaEntries == {n \in 1..Len(log) : IsResponsesDelta(log[n])}

\* s contains no tool-call marker and no thinking marker
MarkerFree(s) ==
  /\ ~Includes(ToLowerCase(s), OpenMarker) /\ ~Includes(ToLowerCase(s), EndTag)
  /\ \A m \in ThinkMarkers : ~Includes(ToLowerCase(s), m)

RECURSIVE DeltasIn(_, _)
\* the deltas received in the log entries a..b, concatenated
DeltasIn(a, b) ==
  IF a > b THEN ""
  ELSE IF a = b THEN (IF a \in DeltaEntries THEN log[a].json[1].delta ELSE "")
  ELSE DeltasIn(a, (a + b) \div 2) \o DeltasIn((a + b) \div 2 + 1, b)

RECURSIVE DeltasOut(_, _)
\* the deltas emitted for the log entries a..b, concatenated
DeltasOut(a, b) ==
  IF a > b THEN ""
  ELSE IF a = b THEN (IF a \in DeltaEntries THEN log[a].chunks[1].delta ELSE "")
  ELSE DeltasOut(a, (a + b) \div 2) \o DeltasOut((a + b) \div 2 + 1, b)

\* C11: in a Responses stream whose deltas contain no tool-call marker and
\* no thinking marker, every response.output_text.delta event is emitted
\* with the delta it was received with, and at the end of the stream the
\* deltas emitted make up the deltas received.
C11_MarkerFreeRoundTrip ==
  MarkerFree(DeltasIn(1, Len(log))) =>
    /\ \A n \in DeltaEntries : log[n].chunks[1].delta = log[n].json[1].delta
    /\ closed => DeltasOut(1, Len(log)) = DeltasIn(1, Len(log))

\* the position in s of the first opening marker that no closing marker
\* follows, -1 if there is none
UnclosedAt(s) ==
  LET At(low) ==
        LET S == {p \in 0..(Len(s) - 1) :
                    StartsWithAt(low, OpenMarker, p) /\ IndexOfFrom(low, EndTag, p) = -1}
        IN  IF S = {} THEN -1 ELSE MinOf(S)
  IN  At(ToLowerCase(s))

\* the tool calls injected for the log entries
InjectedCalls ==
  {<<n, c>> \in (1..Len(log)) \X (1..8) :
     n \in DeltaEntries /\ 3 * c + 1 <= Len(log[n].chunks)}

\* C12: when the text of the deltas of a stream holds an opening marker
\* that no closing marker follows, then at the end of the stream no
\* character from that marker on has been emitted as visible text (the
\* visible text is no longer than what precedes the marker and holds no
\* opening marker), no tool call is recovered from the block, and flush
\* emits none of it.
C12_UnclosedBlockDropped ==
  LET Dropped(din, dout) ==
        UnclosedAt(din) # -1 =>
          /\ Len(dout) <= UnclosedAt(din)
          /\ ~Includes(ToLowerCase(dout), OpenMarker)
          /\ Cardinality(InjectedCalls) =
               Len(Whole(Slice(din, 0, UnclosedAt(din))).toolCalls)
          /\ out = EmittedBytes(1, Len(log)) \o Encode(buffer)
  IN  (closed /\ mode = "responses") => Dropped(DeltasIn(1, Len(log)), DeltasOut(1, Len(log)))

\* the complete blocks of the text s, from an opening marker to the end of
\* the first closing marker after it, that parseToolCallBlock rejects
RejectedBlocks(s) ==
  LET Of(low) ==
        {Slice(s, p, IndexOfFrom(low, EndTag, p) + Len(EndTag)) :
           p \in {q \in 0..(Len(s) - 1) :
                    /\ StartsWithAt(low, OpenMarker, q)
                    /\ IndexOfFrom(low, ">", q) # -1
                    /\ IndexOfFrom(low, EndTag, q) # -1}}
  IN  {b \in Of(ToLowerCase(s)) : ~ParseToolCallBlock(b).ok}

\* C13 (streaming path): a complete block for which parseToolCallBlock
\* returns null, in a delta that reaches the tracker OUTSIDE, is still in
\* the delta emitted, also when another block of the delta is recovered.
C13_RejectedBlockStaysVisible ==
  \A n \in DeltaEntries :
     ~log[n].before.inToolCall =>
       \A b \in RejectedBlocks(log[n].json[1].delta) : Includes(log[n].chunks[1].delta, b)

\* C14: flush emits exactly the bytes of the text held in the framing
\* buffer, and nothing when the buffer is empty.
C14_FlushVerbatim == [][(~closed /\ closed') => out' = out \o Encode(buffer)]_vars

(***************************************************************************)
(* Properties of sanitizeModelResponse (SpecResponse).                     *)
(***************************************************************************)

\* the content type of the Response passed in
ContentTypeIn ==
  IF "content-type" \in DOMAIN response.headers THEN response.headers["content-type"] ELSE ""

HintGiven == options = [likelySse |-> TRUE]

\* C15: the SSE path is taken exactly when the content type contains
\* text/event-stream or likelySse is true, whatever else the content type
\* says; otherwise the JSON path is taken exactly when the content type
\* contains application/json; in every other case the Response passed in
\* is returned itself, with its status, headers and body as they were
C15_Routing ==
  returned # <<>> =>
    /\ returned.route = "sse" <=> (Includes(ContentTypeIn, "text/event-stream") \/ HintGiven)
    /\ returned.route = "json" <=>
         /\ ~(Includes(ContentTypeIn, "text/event-stream") \/ HintGiven)
         /\ Includes(ContentTypeIn, "application/json")
    /\ returned.route \notin {"sse", "json"} =>
         /\ returned.same
         /\ returned.status = response.status /\ returned.statusText = response.statusText
         /\ returned.headers = response.headers
         /\ bodyRead => bodyOut = response.body

\* the hint wins over a JSON content type, and the body was read
C15_Witness ==
  /\ bodyRead /\ returned.route = "sse"
  /\ Includes(ContentTypeIn, "application/json") /\ HintGiven

\* the headers of the Response returned are those passed in without
\* content-length
HeadersExceptLength ==
  /\ "content-length" \notin DOMAIN returned.headers
  /\ DOMAIN returned.headers = (DOMAIN response.headers) \ {"content-length"}
  /\ \A h \in DOMAIN returned.headers : returned.headers[h] = response.headers[h]

\* C16: the Response returned has the status and the status text of the
\* one passed in and its headers except content-length, on every path
C16_HeadersExceptLength ==
  returned # <<>> =>
    /\ returned.status = response.status /\ returned.statusText = response.statusText
    /\ HeadersExceptLength

\* the Response passed in is returned as it is: no path applies, or the
\* SSE path finds no body
ReturnedAsIs == returned.route = "pass" \/ (returned.route = "sse" /\ ~response.hasBody)

\* C16 (amended): the status and the status text are those passed in on
\* every path; the headers are those passed in except content-length on
\* the JSON path and on the SSE path of a response with a body; when the
\* Response passed in is returned as it is, all its headers remain
C16_HeadersExceptLengthUnlessAsIs ==
  returned # <<>> =>
    /\ returned.status = response.status /\ returned.statusText = response.statusText
    /\ IF ReturnedAsIs THEN returned.same /\ returned.headers = response.headers
       ELSE ~returned.same /\ HeadersExceptLength

\* a content-length header was removed on the JSON path
C16_Witness ==
  /\ returned # <<>> /\ ~returned.same
  /\ "content-length" \in DOMAIN response.headers
  /\ returned.route = "json"

\* the body was read from the Response of the JSON path
JsonRouteRead == returned # <<>> /\ returned.route = "json" /\ bodyRead

\* the JSON values of the body passed in and of the body read
JsonIn == ParseJson(DecodeBody(response.body))

JsonOut == ParseJson(DecodeBody(bodyOut))

\* C17: a body that is not JSON comes out of the JSON path byte for byte
C17_UnparseableBodyVerbatim ==
  (JsonRouteRead /\ ~JsonIn.ok) => bodyOut = response.body

\* the body holds a chat completion
HasChoices == JsonIn.ok /\ Has(JsonIn.json, "choices")

\* what is recovered from the content of a choice
Recovered(choice) == JsonExtractToolCallsFromText(choice.message.content)

\* the choice yields at least one tool call
YieldsCalls(choice) ==
  /\ HasStringContent(choice) /\ HasBothMarkers(choice.message.content)
  /\ Len(Recovered(choice).toolCalls) >= 1

\* C18: a choice whose content is not a string, lacks one of the markers
\* or yields no tool call is the same in the output, also when another
\* choice is rewritten; when no choice yields a call the output JSON is the
\* input JSON
C18_OtherChoicesUntouched ==
  JsonRouteRead /\ JsonIn.ok =>
    /\ JsonOut.ok
    /\ HasChoices =>
         /\ Has(JsonOut.json, "choices")
         /\ Len(JsonOut.json.choices) = Len(JsonIn.json.choices)
         /\ \A i \in 1..Len(JsonIn.json.choices) :
              ~YieldsCalls(JsonIn.json.choices[i]) =>
                 JsonOut.json.choices[i] = JsonIn.json.choices[i]
    /\ (HasChoices => \A i \in 1..Len(JsonIn.json.choices) : ~YieldsCalls(JsonIn.json.choices[i]))
         => JsonOut.json = JsonIn.json

\* one choice is rewritten and another, with both markers and no call
\* recovered, is not
C18_Witness ==
  /\ JsonRouteRead /\ HasChoices
  /\ \E i, k \in 1..Len(JsonIn.json.choices) :
       /\ YieldsCalls(JsonIn.json.choices[i])
       /\ JsonOut.json.choices[i] # JsonIn.json.choices[i]
       /\ HasStringContent(JsonIn.json.choices[k])
       /\ HasBothMarkers(JsonIn.json.choices[k].message.content)
       /\ ~YieldsCalls(JsonIn.json.choices[k])

\* the entry e of tool_calls stands at position k for the call tc
IsEntryFor(e, k, tc) ==
  /\ e.index = k - 1 /\ e.type = "function"
  /\ StartsWith(e.id, "call_") /\ Len(e.id) > Len("call_")
  /\ e.function.name = tc.toolName /\ e.function.arguments = tc.arguments

\* the choice out is the choice in rewritten for the calls recovered
IsRewrittenFor(in, outc, r) ==
  /\ outc.message.content = r.visibleText
  /\ Len(outc.message.tool_calls) = Len(r.toolCalls)
  /\ \A k \in 1..Len(r.toolCalls) : IsEntryFor(outc.message.tool_calls[k], k, r.toolCalls[k])
  /\ \A k, l \in 1..Len(r.toolCalls) :
       k # l => outc.message.tool_calls[k].id # outc.message.tool_calls[l].id
  /\ outc.finish_reason = "tool_calls"

\* C19: a choice from whose content n >= 1 tool calls are recovered ends
\* with the visible text as content, n tool_calls entries in the order of
\* extraction with index 0..n-1, type function, a generated id, the name
\* and the arguments recovered, and finish_reason tool_calls
C19_RewrittenChoice ==
  JsonRouteRead /\ HasChoices =>
    \A i \in 1..Len(JsonIn.json.choices) :
       YieldsCalls(JsonIn.json.choices[i]) =>
          IsRewrittenFor(JsonIn.json.choices[i], JsonOut.json.choices[i],
                         Recovered(JsonIn.json.choices[i]))

\* two calls were recovered from one choice
C19_Witness ==
  /\ JsonRouteRead /\ HasChoices
  /\ \E i \in 1..Len(JsonIn.json.choices) :
       /\ YieldsCalls(JsonIn.json.choices[i])
       /\ Len(JsonOut.json.choices[i].message.tool_calls) = 2

RECURSIVE WithoutBlocks(_)
\* s without its complete blocks: from an opening marker through its ">"
\* to the next closing marker
WithoutBlocks(s) ==
  LET Cut(i, k) ==
        IF k = -1 THEN s
        ELSE Slice(s, 0, i) \o WithoutBlocks(SliceFrom(s, k + Len(EndTag)))
      Closed(i, j) ==
        Cut(i, IF j = -1 THEN -1 ELSE IndexOfFrom(ToLowerCase(s), EndTag, j))
      Opened(i) == Closed(i, IF i = -1 THEN -1 ELSE IndexOfFrom(s, ">", i))
  IN  Opened(IndexOf(ToLowerCase(s), OpenMarker))

\* C20: the content of a rewritten choice is the original content with
\* exactly its complete blocks removed
C20_VisibleTextIsTheRest ==
  JsonRouteRead /\ HasChoices =>
    \A i \in 1..Len(JsonIn.json.choices) :
       YieldsCalls(JsonIn.json.choices[i]) =>
          JsonOut.json.choices[i].message.content
            = WithoutBlocks(JsonIn.json.choices[i].message.content)

\* the opening markers of s that no closing marker follows
UnclosedMarkers(s) ==
  {p \in 0..(Len(s) - 1) :
     /\ StartsWithAt(ToLowerCase(s), OpenMarker, p)
     /\ IndexOfFrom(ToLowerCase(s), EndTag, p) = -1}

\* where the incomplete trailing block of s starts, or -1
TrailingBlockAt(s) == IF UnclosedMarkers(s) = {} THEN -1 ELSE MinOf(UnclosedMarkers(s))

\* the number of tool calls of a choice
CallsOf(choice) ==
  IF "tool_calls" \in DOMAIN choice.message THEN Len(choice.message.tool_calls) ELSE 0

\* the choices of the body whose content ends in an incomplete block
IncompleteChoices ==
  {i \in 1..Len(JsonIn.json.choices) :
     /\ HasStringContent(JsonIn.json.choices[i])
     /\ TrailingBlockAt(JsonIn.json.choices[i].message.content) # -1}

\* the incomplete trailing block of the choice i of the body
TrailingBlock(i) ==
  SliceFrom(JsonIn.json.choices[i].message.content,
            TrailingBlockAt(JsonIn.json.choices[i].message.content))

\* the calls recovered before the incomplete trailing block of the choice i
CallsBefore(i) ==
  Len(JsonExtractToolCallsFromText(
        Slice(JsonIn.json.choices[i].message.content, 0,
              TrailingBlockAt(JsonIn.json.choices[i].message.content))).toolCalls)

C22_Idempotent ==
  (JsonRouteRead /\ JsonIn.ok /\ JsonOut.ok) =>
    /\ ~RewriteChatCompletionsJson(JsonOut.json).changed
    /\ RewriteChatCompletionsJson(JsonOut.json).value = JsonOut.json

(***************************************************************************)
(* Properties of parseToolCallBlock (SpecParser).                          *)
(***************************************************************************)

\* the keys of the pairs of the block
GivenKeys == {blockGiven.pairs[i].key : i \in 1..Len(blockGiven.pairs)}

\* the raw value written for the key k
GivenRaw(k) == blockGiven.pairs[CHOOSE i \in 1..Len(blockGiven.pairs) : blockGiven.pairs[i].key = k].raw

NamingKeys == <<"tool", "name", "toolName">>

\* the naming arguments of the block whose value is a non-empty string
UsableNaming ==
  {i \in 1..Len(NamingKeys) :
     /\ NamingKeys[i] \in GivenKeys
     /\ CoerceValue(GivenRaw(NamingKeys[i])).t = "string"
     /\ Trim(CoerceValue(GivenRaw(NamingKeys[i])).str) # ""}

\* C24: the tool name is that of the attribute if there is one, else the
\* value of the first of the arguments tool, name, toolName that is a
\* non-empty string, else the name inferred from the arguments; with none
\* of them the result is null
C24_NameResolutionOrder ==
  (blockParsed # <<>> /\ blockGiven \in NamingGivens) =>
    /\ blockGiven.attr # <<>> =>
         blockParsed.ok /\ blockParsed.toolName = blockGiven.attr[1].value
    /\ (blockGiven.attr = <<>> /\ UsableNaming # {}) =>
         /\ blockParsed.ok
         /\ blockParsed.toolName = Trim(CoerceValue(GivenRaw(NamingKeys[MinOf(UsableNaming)])).str)
    /\ (blockGiven.attr = <<>> /\ UsableNaming = {}) =>
         IF "command" \in GivenKeys THEN blockParsed.ok /\ blockParsed.toolName = "bash"
         ELSE ~blockParsed.ok

\* the tool the table of the claim gives for the argument names K
InferExpected(K) ==
  IF "filePath" \in K
  THEN (IF "content" \in K THEN "write"
        ELSE IF {"oldString", "newString"} \subseteq K THEN "edit"
        ELSE "read")
  ELSE IF "pattern" \in K THEN (IF "include" \in K \/ "path" \in K THEN "grep" ELSE "glob")
  ELSE IF "url" \in K THEN "webfetch"
  ELSE IF "command" \in K THEN "bash"
  ELSE IF "todos" \in K THEN "todo_write"
  ELSE ""

\* the keys of InferPool
PoolKeys ==
  {"filePath", "content", "oldString", "newString", "pattern", "include", "path", "url",
   "command", "todos"}

\* C25: for every set of string-valued arguments (and a todos list) the
\* inferred tool is the first of the table that applies: write, edit, read,
\* grep, glob, webfetch, bash, todo_write
C25_InferenceTableOrder ==
  (/\ blockParsed # <<>> /\ blockGiven \in InferGivens
   /\ InferExpected(GivenKeys) # "") =>
    /\ blockParsed.ok
    /\ blockParsed.toolName = InferExpected(GivenKeys)

\* a block with the arguments of edit, glob, webfetch and bash is an edit
C25_Witness ==
  /\ blockParsed # <<>> /\ blockGiven \in InferGivens
  /\ {"filePath", "oldString", "newString", "pattern", "url", "command"} \subseteq GivenKeys
  /\ "content" \notin GivenKeys
  /\ blockParsed.toolName = "edit"

\* C26: every value is trimmed and replaced by its JSON parse when it
\* parses, else kept as the trimmed text; scenario A gives the tool write
\* with the arguments filePath a.txt and content hi
C26_ValueCoercion ==
  blockParsed # <<>> =>
    /\ \A e \in CoerceTable :
         blockGiven = CoerceGiven(e) =>
           /\ blockParsed.ok /\ blockParsed.toolName = "bash"
           /\ blockParsed.arguments = "{\"command\":\"ls\",\"v\":" \o e.json \o "}"
    /\ blockGiven = ScenarioA =>
         /\ blockParsed.ok /\ blockParsed.toolName = "write"
         /\ blockParsed.arguments = "{\"filePath\":\"a.txt\",\"content\":\"hi\"}"
    /\ blockGiven = NumberCommand => ~blockParsed.ok
    /\ blockGiven = QuotedCommand =>
         /\ blockParsed.ok /\ blockParsed.toolName = "bash"
         /\ blockParsed.arguments = "{\"command\":\"ls\"}"

\* scenario A was parsed
C26_Witness == blockParsed # <<>> /\ blockGiven = ScenarioA /\ blockParsed.ok

\* the block parsed names no tool: its opening tag has no attribute and
\* none of its arguments is tool, name or toolName
NoNameGiven ==
  /\ blockGiven.attr = <<>>
  /\ \A i \in 1..Len(blockGiven.pairs) :
       blockGiven.pairs[i].key \notin {"tool", "name", "toolName"}

\* C35: every tool name parseToolCallBlock produces for a block that names
\* no tool (no name or tool attribute, no tool, name or toolName argument)
\* is one of OPENCODE_BUILTIN_TOOL_IDS; a name outside the list is a name
\* the block gave
C35_InferredNamesAreBuiltin ==
  (blockParsed # <<>> /\ blockParsed.ok) =>
    /\ NoNameGiven => blockParsed.toolName \in OPENCODE_BUILTIN_TOOL_IDS
    /\ blockParsed.toolName \notin OPENCODE_BUILTIN_TOOL_IDS => ~NoNameGiven

\* a block whose only argument is a todos list was parsed as todo_write, and
\* so was a block of the rows batch, list, codesearch, websearch or task
C35_Witness ==
  /\ blockParsed # <<>> /\ blockParsed.ok /\ NoNameGiven
  /\ \/ blockGiven.pairs = <<[key |-> "todos", raw |-> "[]"]>>
        /\ blockParsed.toolName = "todo_write"
     \/ blockGiven \in RowGivens
        /\ blockParsed.toolName \in {"batch", "list", "codesearch", "websearch", "task"}

(***************************************************************************)
(* Further properties of the SSE transformer (Spec).                       *)
(***************************************************************************)

\* the tracker after the log entry e
TrackerAfter(e) ==
  [inToolCall |-> e.after.inToolCall, toolCallBuffer |-> e.after.toolCallBuffer,
   danglingThinkPrefix |-> e.after.danglingThinkPrefix]

\* the tracker after the content of the first choice of e alone is fed to it
TrackerAfterFirst(e) ==
  IF Len(e.json[1].choices) >= 1 /\ HasContent(e.json[1].choices[1])
  THEN LET Fields(r) ==
             [inToolCall |-> r.inToolCall, toolCallBuffer |-> r.toolCallBuffer,
              danglingThinkPrefix |-> r.danglingThinkPrefix]
       IN  Fields(ExtractToolCallsFromText(TrackerBefore(e), e.json[1].choices[1].delta.content))
  ELSE TrackerBefore(e)

\* C27: in Chat-Completions mode every choice but the first is emitted as
\* it was received, and the tracker is left as the content of the first
\* choice alone leaves it
C27_OnlyFirstChoiceRewritten ==
  \A n \in 1..Len(log) :
     IsChatChunk(log[n]) =>
       /\ \A i \in 2..Len(log[n].json[1].choices) :
            log[n].chunks[1].choices[i] = log[n].json[1].choices[i]
       /\ TrackerAfter(log[n]) = TrackerAfterFirst(log[n])

\* the log entry e is an event processed in Responses mode
InResponsesMode(e) == e.kind = "json" /\ e.after.mode = "responses"

\* the output_index of the synthesized tool call k of the log entry e
SynthesizedIndex(e, k) == e.chunks[3 * k - 1].output_index

\* the number of tool calls synthesized in the log entry e
SynthesizedCalls(e) == IF IsResponsesDelta(e) THEN (Len(e.chunks) - 1) \div 3 ELSE 0

\* C32: over the events of a stream the highest-seen output index never
\* decreases, and the index of a synthesized tool call is >= 0, greater
\* than the output_index of every event processed in Responses mode up to
\* and including the delta that held the block, and greater than every
\* index synthesized before it
C32_OutputIndexMonotonic ==
  \A n \in 1..Len(log) :
    /\ log[n].after.maxOutputIndex >= log[n].before.maxOutputIndex
    /\ \A k \in 1..SynthesizedCalls(log[n]) :
         /\ SynthesizedIndex(log[n], k) >= 0
         /\ \A m \in 1..n :
              InResponsesMode(log[m]) =>
                \A g \in GenuineIndices(log[m]) : SynthesizedIndex(log[n], k) > g
         /\ \A m \in 1..(n - 1) : \A j \in 1..SynthesizedCalls(log[m]) :
              SynthesizedIndex(log[n], k) > SynthesizedIndex(log[m], j)
         /\ \A j \in 1..(k - 1) : SynthesizedIndex(log[n], k) > SynthesizedIndex(log[n], j)

\* a genuine item 2 came first, then two deltas with a block each: the
\* calls got the indices 3 and 4
C32_Witness ==
  /\ input = StreamTwoDeltas /\ Len(log) = 3
  /\ SynthesizedCalls(log[2]) = 1 /\ SynthesizedIndex(log[2], 1) = 3
  /\ SynthesizedCalls(log[3]) = 1 /\ SynthesizedIndex(log[3], 1) = 4

\* the texts of the tracker without a thinking marker
BlockTexts == {"Hi " \o BlockAttr \o " ok", BlockInfer \o ".", TextBlocks, TextRejected}

RECURSIVE CallsIn(_)
\* the tool calls of the complete blocks of s that the parser accepts, from
\* left to right
CallsIn(s) ==
  LET Call(c) ==
        IF c.ok THEN <<[toolName |-> c.toolName, arguments |-> c.arguments]>> ELSE <<>>
      Block(i, k) ==
        IF k = -1 THEN <<>>
        ELSE Call(ParseToolCallBlock(Slice(s, i, k + Len(EndTag))))
               \o CallsIn(SliceFrom(s, k + Len(EndTag)))
      From(low, i) == Block(i, IF i = -1 THEN -1 ELSE IndexOfFrom(low, EndTag, i))
      In(low) == From(low, IndexOf(low, OpenMarker))
  IN  In(ToLowerCase(s))

\* where the block starts that the text s ends inside: the first opening
\* marker after the last closing marker, -1 if there is none
OpenBlockAt(s) ==
  LET After(low, ends) ==
        IndexOfFrom(low, OpenMarker, IF ends = {} THEN 0 ELSE MaxOf(ends) + 1)
      In(low) == After(low, {k \in 0..(Len(low) - Len(EndTag)) : StartsWithAt(low, EndTag, k)})
  IN  In(ToLowerCase(s))

\* what the first fragment frag, which ends inside a block starting at the
\* index at or inside none (at = -1), leaves behind
AfterFirstFragment(frag, at) ==
  LET Left(outside) ==
        /\ visAcc' = WithoutBlocks(outside)
        /\ callsAcc' = CallsIn(outside)
        /\ inToolCall' = (at # -1)
        /\ toolCallBuffer' = (IF at = -1 THEN "" ELSE SliceFrom(frag, at))
  IN  Left(IF at = -1 THEN frag ELSE Slice(frag, 0, at))

\* the first fragment, fed to a new tracker
FirstFragment == Slice(text, 0, fed')

\* C33: a first fragment whose blocks are all complete yields the calls of
\* its blocks from left to right and the text outside them, and leaves the
\* tracker OUTSIDE with an empty buffer; a first fragment that ends inside
\* a block yields the same for the part before that block, and leaves the
\* tracker INSIDE with everything from the opening marker on accumulated
C33_TransitionsWithinFragment ==
  [][(text \in BlockTexts /\ fed = 0 /\ fed' > 0) =>
       AfterFirstFragment(FirstFragment, OpenBlockAt(FirstFragment))]_vars

\* the text with two blocks was fed: both calls in their order, the text
\* around them, tracker OUTSIDE
C33_Witness ==
  /\ text = TextBlocks /\ fed = Len(text)
  /\ ~inToolCall /\ toolCallBuffer = ""
  /\ visAcc = "a b c"
  /\ Len(callsAcc) = 2
  /\ callsAcc[1].toolName = "ls" /\ callsAcc[2].toolName = "bash"

\* the synthesized tool calls of the chat events of the log: the log entry
\* and the chunk that carries the call, the index of its choice and the
\* index of its tool_calls entry
SynthesizedChatCalls ==
  {[entry |-> n, chunk |-> c, choice |-> log[n].chunks[c].choices[1].index,
    index |-> log[n].chunks[c].choices[1].delta.tool_calls[1].index] :
     <<n, c>> \in {nc \in (1..Len(log)) \X (2..5) :
                     /\ IsChatChunk(log[nc[1]]) /\ nc[2] <= Len(log[nc[1]].chunks)
                     /\ "tool_calls" \in DOMAIN log[nc[1]].chunks[nc[2]].choices[1].delta}}

\* C36: within one Chat-Completions stream two different synthesized tool
\* calls for the same choice never carry the same tool_calls[].index,
\* whether they come from the same event or from different events.
C36_ChatCallIndexDistinct ==
  \A a, b \in SynthesizedChatCalls :
     (a # b /\ a.choice = b.choice) => a.index # b.index

\* the text decoded from the bytes the transport has delivered so far
DecodedSoFar == DecodeStream(<<>>, SubSeq(input, 1, pos)).text

\* C34: after every invocation of transform the framing buffer holds no
\* complete blank-line boundary (no two line feeds in a row): every complete
\* event block has left it, and what it retains is the unterminated tail of
\* the text decoded so far.
C34_NoBoundaryInBuffer ==
  /\ Boundary(buffer) = 0
  /\ \E k \in 1..(Len(DecodedSoFar) + 1) :
       buffer = SubSeq(DecodedSoFar, k, Len(DecodedSoFar))

\* two complete event blocks and the beginning of a third have arrived in
\* chunks that end inside lines, and the beginning of the third is retained
C34_Witness ==
  /\ input = StreamTwoDeltas /\ ~closed /\ pos < Len(input) /\ cuts \subseteq {"payload", "line"}
  /\ Len(log) = 2 /\ buffer # <<>>


(***************************************************************************)

\* the stream a body leaves behind when it is processed alone: its first
\* n bytes delivered as one chunk, and its end reached if ended
Alone(bytes, n, ended) ==
  IF ended THEN RunWhole(bytes)
  ELSE IF n = 0 THEN NewStream
  ELSE Transform(NewStream, SubSeq(bytes, 1, n))

\* the closure variables st and the output are those of alone
SameAs(st, alone) ==
  /\ st.out = alone.out
  /\ st.mode = alone.mode /\ st.buffer = alone.buffer
  /\ st.inToolCall = alone.inToolCall /\ st.toolCallBuffer = alone.toolCallBuffer
  /\ st.danglingThinkPrefix = alone.danglingThinkPrefix
  /\ st.maxOutputIndex = alone.maxOutputIndex

\* C23: whatever the order of the callbacks of two streams, the output and
\* the closure variables of each are those it has when processed alone
C23_StreamIsolation ==
  peer # <<>> =>
    /\ SameAs(Stream, Alone(input, pos, closed))
    /\ SameAs(peer.st, Alone(peer.input, peer.pos, peer.closed))

\* both streams are under way: the first is inside a block and holds the
\* start of a thinking marker, the second holds one too
C23_Witness ==
  /\ peer # <<>> /\ ~closed /\ ~peer.closed
  /\ inToolCall /\ danglingThinkPrefix = "</th"
  /\ peer.st.danglingThinkPrefix = "[thi"

(***************************************************************************)
(* Properties of the message transform hook (SpecHandler).                 *)
(***************************************************************************)

\* the index of the latest user message, 0 if there is none
LastUserAt(messages) ==
  LET users == {i \in 1..Len(messages) : messages[i].info.role = "user"}
  IN  IF users = {} THEN 0 ELSE MaxOf(users)

\* the message after is the message before, or the message before with
\* the one prefix part in front
SameOrPrefixed(before, after) ==
  /\ after.info = before.info
  /\ \/ after.parts = before.parts
     \/ after.parts = <<PrefixPart(UltrathinkInstruction \o "\n\n")>> \o before.parts

\* C28: in lite mode, after any number of runs of the handler the list has
\* as many messages as the host handed over, every message but the latest
\* user message is as it was, and the latest user message has gained at
\* most one prefix part
C28_LitePrefixesLatestOnly ==
  (runs >= 1 /\ pluginConfig.mode = "lite") =>
    /\ Len(outputMessages) = Len(messagesGiven)
    /\ \A i \in 1..Len(messagesGiven) :
         IF i = LastUserAt(messagesGiven)
           THEN SameOrPrefixed(messagesGiven[i], outputMessages[i])
         ELSE outputMessages[i] = messagesGiven[i]

\* lite mode ran twice on two user messages that did not begin with the
\* keyword: the latest has the prefix part, the earlier one has not
C28_Witness ==
  /\ runs = 2 /\ pluginConfig.mode = "lite"
  /\ Len(messagesGiven) = 2 /\ LastUserAt(messagesGiven) = 2
  /\ messagesGiven[1].info.role = "user"
  /\ EnsureUltrathinkOnUserMessage(messagesGiven[1], "x") # messagesGiven[1]
  /\ outputMessages[1] = messagesGiven[1]
  /\ Len(outputMessages[2].parts) = Len(messagesGiven[2].parts) + 1

\* the first text part of the message starts with the keyword, ignoring
\* case and leading whitespace
BeginsWithUltrathink(message) ==
  LET texts == {j \in 1..Len(message.parts) : IsTextPart(message.parts[j])}
  IN  /\ texts # {}
      /\ StartsWith(ToLowerCase(TrimStart(message.parts[MinOf(texts)].text)), "ultrathink")

\* C29: in tool mode, after the handler ran for a target model, every user
\* message of the list, original or synthetic, begins with the keyword
C29_EveryUserMessageBeginsWithUltrathink ==
  (/\ runs >= 1 /\ pluginConfig.mode = "tool"
   /\ Enhances(pluginConfig, messagesBefore)) =>
    \A i \in 1..Len(outputMessages) :
      outputMessages[i].info.role = "user" => BeginsWithUltrathink(outputMessages[i])

\* C37: in tool mode, for a target model, a second run of the handler on
\* the list the first run produced changes nothing: the number of messages
\* and the parts of every message are the same after it
C37_SecondRunChangesNothing ==
  (/\ runs = 2 /\ pluginConfig.mode = "tool"
   /\ Enhances(pluginConfig, messagesGiven) /\ Enhances(pluginConfig, messagesBefore)) =>
    /\ Len(outputMessages) = Len(messagesBefore)
    /\ \A i \in 1..Len(outputMessages) : outputMessages[i].parts = messagesBefore[i].parts

(***************************************************************************)
(* Properties of the hooks over several sessions (SpecSession).            *)
(***************************************************************************)

\* the latest run of the transform hook before the entry n of the log that
\* was given messages of the session s, 0 if there is none
LastTransformOf(s, n) ==
  LET K == {k \in 1..(n - 1) : hookLog[k].op = "transform" /\ hookLog[k].sessionID = s}
  IN  IF K = {} THEN 0 ELSE MaxOf(K)

\* before the entry n of the log, the latest transform run given messages
\* of the session s was given messages of a target model
LastTransformWasTarget(s, n) ==
  LastTransformOf(s, n) # 0 /\ hookLog[LastTransformOf(s, n)].target

\* the tool execute hook appended a prompt in the entry e of the log
HookAppended(e) == e.op = "hook" /\ e.returned # e.given

\* C38: however transform runs and tool execute calls of several sessions
\* interleave, the tool execute hook appends a prompt to an output of the
\* session S only if the plugin is enabled in tool mode and the latest
\* transform run given messages of S was given a target model; a session no
\* transform has seen is not enhanced, and the gate of S in the map stays
\* what the latest transform run of S made it, whatever runs for other
\* sessions follow
C38_SessionGating ==
  /\ \A n \in 1..Len(hookLog) :
       HookAppended(hookLog[n]) =>
         /\ pluginConfig.enabled /\ pluginConfig.mode = "tool"
         /\ LastTransformWasTarget(hookLog[n].sessionID, n)
         /\ Includes(hookLog[n].returned.output, ToolOutputMarker)
  /\ \A s \in Sessions :
       (s \in DOMAIN sessionEnhance /\ sessionEnhance[s].enhance)
         <=> (pluginConfig.enabled /\ LastTransformWasTarget(s, Len(hookLog) + 1))

\* a target model was seen for ses1, then another model for ses2, and then
\* the hook appended a prompt to an output of ses1
C38_Witness ==
  /\ Len(hookLog) = 3
  /\ hookLog[1].op = "transform" /\ hookLog[1].sessionID = "ses1" /\ hookLog[1].target
  /\ hookLog[2].op = "transform" /\ hookLog[2].sessionID = "ses2" /\ ~hookLog[2].target
  /\ HookAppended(hookLog[3]) /\ hookLog[3].sessionID = "ses1"
  /\ hookLog[3].given.output = "a.txt"

(***************************************************************************)
(* Properties of the fetch wrapper (SpecFetch).                            *)
(***************************************************************************)

\* the body of the call is a string
StringBodyGiven == Has(fetchInit, "body") /\ fetchInit.body.kind \in {"text", "json"}

\* the model the body of the call names, "" if it names none
ModelGiven ==
  IF StringBodyGiven /\ fetchInit.body.kind = "json" /\ Has(fetchInit.body.value, "model")
    THEN fetchInit.body.value.model
  ELSE ""

\* the model named contains one of the target substrings of the config
TargetGiven ==
  /\ Has(fetchConfig, "targetModels")
  /\ \E k \in 1..Len(fetchConfig.targetModels) :
       \E i \in 0..Len(ModelGiven) :
         Slice(ModelGiven, i, i + Len(fetchConfig.targetModels[k])) = fetchConfig.targetModels[k]

\* C30: when the plugin is disabled, the body is not a string or the model
\* contains no target substring, the request is forwarded as it is and the
\* caller gets the very response of the original fetch; the sanitizer is
\* called only when none of these holds and sanitizeResponses is true
C30_ActsOnlyForTargetModels ==
  delivered # <<>> =>
    /\ (~fetchConfig.enabled \/ ~StringBodyGiven \/ ~TargetGiven) =>
         /\ forwarded.init = fetchInit
         /\ delivered = upstream
         /\ sanitizeCalls = <<>>
    /\ sanitizeCalls # <<>> =>
         /\ fetchConfig.enabled /\ StringBodyGiven /\ TargetGiven
         /\ Has(fetchOptions, "sanitizeResponses") /\ fetchOptions.sanitizeResponses

\* an enabled plugin with both options on got a JSON request that names
\* another model and has a user message to prefix, and a JSON response
\* with blocks came back
C30_Witness ==
  /\ delivered # <<>> /\ fetchConfig.enabled /\ Has(fetchConfig, "targetModels")
  /\ IsTrue(fetchOptions, "injectRequests") /\ IsTrue(fetchOptions, "sanitizeResponses")
  /\ ModelGiven = "gpt-4o"
  /\ fetchInit.body.value.messages[1].content = "hi"
  /\ upstream.body = BodyCalls
====
